---- MODULE Spec2Model ----
(***************************************************************************)
(* Lead-gen pipeline: the policy wrapper (rate limit + retry), the         *)
(* validators, the suppression gate, the waterfall enrichment engine, the  *)
(* run_pipeline driver, the reply classifier and the campaign monitor, as  *)
(* state machines.                                                         *)
(*                                                                         *)
(* Strings are sequences of one-character strings, so that strip(),        *)
(* lower() and the e-mail regular expression are computed, not assumed.    *)
(***************************************************************************)
EXTENDS Integers, Sequences, FiniteSets, TLC

VARIABLES
    \* ---- retry_with_backoff.wrapper (src/src/utils/rate_limiter.py) ----
    max_retries,    \* the decorator argument of this wrapped function
    attempt,        \* loop variable of "for attempt in range(max_retries + 1)"
    calls,          \* number of times func has been called in this invocation
    sleeps,         \* sequence of the time.sleep(delay) arguments, in order
    history,        \* sequence of the outcomes func produced, in order
    r_pc,           \* "loop" | "returned" | "raised"
    r_result,       \* what reached the caller: the return value or the exception
    \* ---- rate_limit.wrapper (src/src/utils/rate_limiter.py) ----
    now,            \* time.time(), in quarter seconds
    last_called,    \* last_called[0] of each decorated operation
    rl_log,         \* one record per invocation: operation, arrival, sleep, start
    \* ---- SuppressionManager (src/src/compliance/suppression.py) ----
    cache,          \* self._cache: key -> [reason, source, added_at]
    file,           \* the table persisted at self.filepath
    s_time,         \* datetime.now(): a logical clock, one tick per operation
    s_last,         \* the last operation called on the manager and its arguments
    s_arg,          \* the list given to the last filter_leads or bulk_add
    s_out,          \* what the last operation gave back: its return value
                    \* or, for bulk_add, the count it reports in its log line
    \* ---- EmailEnricher (src/src/enrichment/waterfall.py) ----
    leads,          \* the list given to process_batch; its dicts are mutated
    pb_i,           \* position of the for loop of process_batch (1-based)
    pb_pc,          \* "idle" | "next" | "prospeo" | "hunter" | "verify" |
                    \* "returned" | "raised"
    enriched,       \* the list process_batch builds: positions in leads
    e_email,        \* local variable email of enrich
    e_source,       \* local variable source of enrich
    qlog,           \* provider calls made for the current lead, in order
    \* ---- run_pipeline (src/scripts/run_pipeline.py) ----
    p_pc,           \* "direct" | "stage1" | "stage2" | "stage3" | "stage4" |
                    \* "done" | "aborted"
    dry_run,        \* argument of run_pipeline
    skip_outreach,  \* argument of run_pipeline
    returned,       \* the list run_pipeline returned: positions in leads
    pushed,         \* the requests sent to the outreach platform, in order
    p_push,         \* what add_leads_batch did in Stage 4: not called,
                    \* returned, or raised (then logged as a failed push)
    \* ---- ReplyClassifier (src/src/reply_handling/classifier.py) ----
    slack_webhook_url,  \* self.cfg.slack_webhook_url: "" when not configured
    c_last,         \* the last method called, its arguments and what the
                    \* services it called did
    c_out,          \* what the last method returned or raised
    \* ---- CampaignMonitor (src/src/monitoring/campaign_monitor.py) ----
    max_bounce_rate,    \* self.max_bounce_rate, a percentage
    m_last,         \* the last operation evaluated and its arguments
    m_health,       \* the CampaignHealth snapshot it was evaluated on
    m_rates,        \* the four rate properties of that snapshot
    m_out,          \* what it returned: the alerts, or is_healthy's answer
    \* ---- EmailEnricher.enrich called on its own (waterfall.py) ----
    d_hist,         \* the lead dict before the first call and after each call
    d_log,          \* per call: the provider queries it made and how it ended
    \* ---- InstantlyClient called on its own (instantly_client.py) ----
    i_last,         \* the last method called, its argument, the attempts
    i_requests,     \* the payloads that call posted to the platform, in order
    i_out,          \* what that call returned or raised
    \* ---- is_valid_url / sanitize_url (validators.py) ----
    u_last,         \* the last function called, its arguments and the
                    \* parts the URL was built from
    u_out,          \* what it returned
    \* ---- CostTracker (src/src/monitoring/cost_tracker.py) ----
    t_calls,        \* self._calls: service -> count (0: nothing logged)
    t_spend,        \* self._spend: service -> spend, in 1/10000 USD
    t_log,          \* the log_call operations of the session, in order
    \* ---- rate_limit.wrapper run by two threads (rate_limiter.py) ----
    w_pc,           \* per worker: "idle" | "sleeping" | "stamp"
    w_inv,          \* per worker: the operation invoked, arrival, sleep
    \* ---- two SuppressionManager instances on one file (suppression.py) ----
    sm_cache,       \* self._cache of each of the two instances
    sm_adds,        \* the add operations completed, in order
    \* ---- CampaignMonitor.send_slack_alerts (campaign_monitor.py) ----
    k_calls,        \* the calls of send_slack_alerts made so far
    k_last,         \* the last call: its alert list and what the sink did
    k_posts,        \* the payloads posted to the sink so far, in order
    k_out,          \* what the last call returned or raised
    \* ---- CostTracker.save and data/cost_log.json (cost_tracker.py) ----
    t_file,         \* the log file: its kind and the summaries it holds
    t_saved         \* the last save: its entry, what the file system did, how it ended

retryVars == <<max_retries, attempt, calls, sleeps, history, r_pc, r_result>>
rateVars  == <<now, last_called, rl_log>>
suppVars  == <<cache, file, s_time, s_last, s_arg, s_out>>

enrichVars == <<leads, pb_i, pb_pc, enriched, e_email, e_source, qlog>>
pipeVars  == <<p_pc, dry_run, skip_outreach, returned, pushed, p_push>>

replyVars == <<slack_webhook_url, c_last, c_out>>
monitorVars == <<max_bounce_rate, m_last, m_health, m_rates, m_out>>
directVars == <<d_hist, d_log>>
instantlyVars == <<i_last, i_requests, i_out>>
urlVars == <<u_last, u_out>>
costVars == <<t_calls, t_spend, t_log>>
workerVars == <<w_pc, w_inv>>
peerVars == <<sm_cache, sm_adds>>
alertVars == <<k_calls, k_last, k_posts, k_out>>
costLogVars == <<t_file, t_saved>>

vars == <<retryVars, rateVars, suppVars, enrichVars, pipeVars, replyVars,
          monitorVars, directVars, instantlyVars, urlVars, costVars,
          workerVars, peerVars, alertVars, costLogVars>>

None == [exc |-> "none", value |-> "None"]

\* a service or a method that was not called
NotCalled == [exc |-> "not called", value |-> "None"]

(***************************************************************************)
(* Bounds of the model.                                                    *)
(***************************************************************************)
MaxRetriesBound == 3

(***************************************************************************)
(* Characters and strings.                                                 *)
(***************************************************************************)
LowerCase == <<"a","b","c","d","e","f","g","h","i","j","k","l","m",
               "n","o","p","q","r","s","t","u","v","w","x","y","z">>
UpperCase == <<"A","B","C","D","E","F","G","H","I","J","K","L","M",
               "N","O","P","Q","R","S","T","U","V","W","X","Y","Z">>
Digits == {"0","1","2","3","4","5","6","7","8","9"}
Letters == {LowerCase[i] : i \in 1..26} \cup {UpperCase[i] : i \in 1..26}
Whitespace == {" ", "\t", "\n", "\r", "\f"}

\* str.lower() on one character
lower_char(c) ==
    IF \E i \in 1..26 : UpperCase[i] = c
    THEN LowerCase[CHOOSE i \in 1..26 : UpperCase[i] = c]
    ELSE c

\* str.lower()
lower(s) == [i \in 1..Len(s) |-> lower_char(s[i])]

\* str.strip(): drop leading and trailing whitespace
strip(s) ==
    LET nonws == {i \in 1..Len(s) : s[i] \notin Whitespace}
    IN  IF nonws = {} THEN <<>>
        ELSE LET first == CHOOSE i \in nonws : \A j \in nonws : i <= j
                 last  == CHOOSE i \in nonws : \A j \in nonws : j <= i
             IN  SubSeq(s, first, last)

(***************************************************************************)
(* Validators (src/src/utils/validators.py).                               *)
(***************************************************************************)
EmailLocalChars  == Letters \cup Digits \cup {".", "_", "%", "+", "-"}
EmailDomainChars == Letters \cup Digits \cup {".", "-"}

\* EMAIL_REGEX.match(s): ^[a-zA-Z0-9._%+-]+@[a-zA-Z0-9.-]+\.[a-zA-Z]{2,}$
\* (at = position of "@", dot = position of the "." before the final label)
EMAIL_REGEX(s) ==
    \E at \in 2..Len(s) : \E dot \in (at + 2)..(Len(s) - 2) :
        /\ s[at] = "@"
        /\ s[dot] = "."
        /\ \A i \in 1..(at - 1) : s[i] \in EmailLocalChars
        /\ \A i \in (at + 1)..(dot - 1) : s[i] \in EmailDomainChars
        /\ \A i \in (dot + 1)..Len(s) : s[i] \in Letters

is_valid_email(email) ==
    IF email = <<>> THEN FALSE ELSE EMAIL_REGEX(strip(email))

sanitize_email(email) ==
    IF email = <<>> THEN <<>>
    ELSE LET e == lower(strip(email))
         IN  IF is_valid_email(e) THEN e ELSE <<>>

(***************************************************************************)
(* Outcomes of one call of a wrapped function: a return value, or an       *)
(* exception of a given class (HTTPError carries response.status_code,     *)
(* 0 when e.response is None).                                             *)
(***************************************************************************)
Returns(v)        == [exc |-> "none", value |-> v]
HTTPError(status) == [exc |-> "HTTPError", value |-> status]
Raises(cls)       == [exc |-> cls, value |-> "None"]

\* classes derived from requests.exceptions.RequestException
RequestExceptions ==
    {"HTTPError", "ConnectionError", "Timeout", "ChunkedEncodingError",
     "TooManyRedirects"}

(***************************************************************************)
(* retry_with_backoff (src/src/utils/rate_limiter.py).                     *)
(***************************************************************************)
_RETRYABLE_EXCEPTIONS == {"ConnectionError", "Timeout", "ChunkedEncodingError"}

_RETRYABLE_STATUS_CODES == {429, 500, 502, 503, 504}

base_delay == 2

\* variant: the delay grows by base_delay with each retry
BackoffDelay_linear(att) == base_delay * (att + 1)

\* delay = base_delay * (2 ** attempt)
BackoffDelay(att) == base_delay * (2 ^ att)

\* variant: the last attempt is taken to be attempt max_retries - 1
OnFailure_offByOne(o, att, m) ==
    IF o.exc = "HTTPError"
    THEN IF o.value \notin _RETRYABLE_STATUS_CODES \/ att + 1 >= m
         THEN "raise" ELSE "retry"
    ELSE IF o.exc \in _RETRYABLE_EXCEPTIONS
         THEN IF att + 1 >= m THEN "raise" ELSE "retry"
         ELSE "raise"

\* variant: every HTTP status is retried
OnFailure_anyStatus(o, att, m) ==
    IF o.exc = "HTTPError" \/ o.exc \in _RETRYABLE_EXCEPTIONS
    THEN IF att = m THEN "raise" ELSE "retry"
    ELSE "raise"

\* variant: the last attempt is not told apart, a transient failure always
\* sleeps and loops
OnFailure_noFinalRaise(o, att, m) ==
    IF o.exc = "HTTPError"
    THEN IF o.value \notin _RETRYABLE_STATUS_CODES THEN "raise" ELSE "retry"
    ELSE IF o.exc \in _RETRYABLE_EXCEPTIONS THEN "retry" ELSE "raise"

\* the except clauses of wrapper, for the failure o of attempt att:
\* "raise" re-raises o to the caller, "retry" sleeps and loops
OnFailure(o, att, m) ==
    IF o.exc = "HTTPError"
    THEN IF o.value \notin _RETRYABLE_STATUS_CODES \/ att = m
         THEN "raise" ELSE "retry"
    ELSE IF o.exc \in _RETRYABLE_EXCEPTIONS
         THEN IF att = m THEN "raise" ELSE "retry"
         ELSE "raise"

\* one iteration of the for loop: func is called and produces outcome o
WrapperIteration(o) ==
    /\ r_pc = "loop"
    /\ attempt <= max_retries
    /\ calls' = calls + 1
    /\ history' = Append(history, o)
    /\ IF o.exc = "none"
       THEN /\ r_pc' = "returned"
            /\ r_result' = o
            /\ UNCHANGED <<attempt, sleeps>>
       ELSE IF OnFailure(o, attempt, max_retries) = "raise"
       THEN /\ r_pc' = "raised"
            /\ r_result' = o
            /\ UNCHANGED <<attempt, sleeps>>
       ELSE /\ sleeps' = Append(sleeps, BackoffDelay(attempt))
            /\ attempt' = attempt + 1
            /\ UNCHANGED <<r_pc, r_result>>
    /\ UNCHANGED max_retries
    /\ UNCHANGED <<rateVars, suppVars, enrichVars, pipeVars, replyVars,
                   monitorVars, directVars, instantlyVars, urlVars, costVars,
                   workerVars, peerVars, alertVars, costLogVars>>

\* what the wrapped function may do on one call
StatusSamples == {0, 400, 401, 403, 404, 429, 500, 502, 503, 504}
ValueSamples == {"r1", "r2"}

FuncReturns == \E v \in ValueSamples : WrapperIteration(Returns(v))

FuncRaisesHTTPError == \E s \in StatusSamples : WrapperIteration(HTTPError(s))

FuncRaisesNetworkError ==
    \E c \in _RETRYABLE_EXCEPTIONS : WrapperIteration(Raises(c))

FuncRaisesOther ==
    \E c \in {"TooManyRedirects", "ValueError"} : WrapperIteration(Raises(c))

InitRetry(M) ==
    /\ max_retries \in M
    /\ attempt = 0
    /\ calls = 0
    /\ sleeps = <<>>
    /\ history = <<>>
    /\ r_pc = "loop"
    /\ r_result = None

NextRetry ==
    \/ FuncReturns
    \/ FuncRaisesHTTPError
    \/ FuncRaisesNetworkError
    \/ FuncRaisesOther

\* the whole wrapper applied to a script: script[i] is what func does on its
\* i-th call; the result is what reaches the caller and the number of calls
RECURSIVE RunWrapper(_, _, _)
RunWrapper(script, att, m) ==
    LET o == script[att + 1]
    IN  IF o.exc = "none" \/ OnFailure(o, att, m) = "raise"
        THEN [outcome |-> o, calls |-> att + 1]
        ELSE RunWrapper(script, att + 1, m)

(***************************************************************************)
(* rate_limit (src/src/utils/rate_limiter.py).  Time is counted in quarter *)
(* seconds.  Each decorated function has its own last_called cell, created *)
(* when the decorator is applied and initialised to 0.0.                   *)
(***************************************************************************)
Ops == {"verify_email", "add_lead"}

\* the decorator argument: 0.5 s for verify_email, 1.0 s for add_lead
min_interval == [op \in Ops |-> IF op = "verify_email" THEN 2 ELSE 4]

StartTime == 5          \* time.time() when the process starts
MaxTime == 14           \* the clock is not followed beyond this
MaxInvocations == 3     \* invocations followed in one behaviour
MaxOversleep == 1       \* time.sleep(d) suspends for d .. d + MaxOversleep
MaxDuration == 1        \* the wrapped function runs for 0 .. MaxDuration

\* the argument of time.sleep, 0 when the wrapper does not sleep
SleepFor(elapsed, interval) ==
    IF elapsed < interval THEN interval - elapsed ELSE 0

\* variant: one timestamp shared by every decorated operation
Stamp_shared(lc, op, t) == [o \in DOMAIN lc |-> t]

\* last_called[0] = time.time() of the wrapper of operation op
Stamp(lc, op, t) == [lc EXCEPT ![op] = t]

\* one invocation of the wrapper of op: sleep if early, stamp, call func
RateLimitedCall(op) ==
    /\ Len(rl_log) < MaxInvocations
    /\ LET elapsed == now - last_called[op]
           d == SleepFor(elapsed, min_interval[op])
       IN  \E over \in 0..MaxOversleep, dur \in 0..MaxDuration :
             LET start == IF d > 0 THEN now + d + over ELSE now
             IN  /\ start + dur <= MaxTime
                 /\ last_called' = Stamp(last_called, op, start)
                 /\ rl_log' = Append(rl_log, [op |-> op, arrive |-> now,
                                              sleep |-> d, start |-> start])
                 /\ now' = start + dur
    /\ UNCHANGED <<retryVars, suppVars, enrichVars, pipeVars, replyVars,
                   monitorVars, directVars, instantlyVars, urlVars, costVars,
                   workerVars, peerVars, alertVars, costLogVars>>

CallVerifyEmail == RateLimitedCall("verify_email")

CallAddLead == RateLimitedCall("add_lead")

\* time passes between two invocations
TimePasses ==
    /\ now < MaxTime
    /\ now' = now + 1
    /\ UNCHANGED <<last_called, rl_log>>
    /\ UNCHANGED <<retryVars, suppVars, enrichVars, pipeVars, replyVars,
                   monitorVars, directVars, instantlyVars, urlVars, costVars,
                   workerVars, peerVars, alertVars, costLogVars>>

InitRate ==
    /\ now = StartTime
    /\ last_called = [op \in Ops |-> 0]
    /\ rl_log = <<>>

NextRate == CallVerifyEmail \/ CallAddLead \/ TimePasses

(***************************************************************************)
(* SuppressionManager (src/src/compliance/suppression.py).                 *)
(***************************************************************************)
EmptyTable == [k \in {} |-> 0]

MaxSuppOps == 2         \* operations on the manager followed in one behaviour

\* Python's None where a string is expected
PyNone == <<"None">>

\* key = email.strip().lower()
Key(email) == lower(strip(email))

\* variant: the e-mail is looked up as given
is_suppressed_exactKey(tbl, email) ==
    IF email = <<>> \/ email = PyNone THEN FALSE ELSE email \in DOMAIN tbl

\* "if not email: return False" covers both "" and None
is_suppressed(tbl, email) ==
    IF email = <<>> \/ email = PyNone THEN FALSE ELSE Key(email) \in DOMAIN tbl

\* self._cache[key] = {...}
Store(tbl, key, entry) ==
    [k \in DOMAIN tbl \cup {key} |-> IF k = key THEN entry ELSE tbl[k]]

\* variant: the whole table is dropped
Delete_clear(tbl, key) == [k \in {} |-> tbl[k]]

\* del self._cache[key]
Delete(tbl, key) == [k \in DOMAIN tbl \ {key} |-> tbl[k]]

\* variant: a repeated add overwrites the entry
AddEntry_lastWriteWins(tbl, email, reason, source, t) ==
    Store(tbl, Key(email),
          [reason |-> reason, source |-> source, added_at |-> t])

\* the table after add(email, reason, source) at time t
AddEntry(tbl, email, reason, source, t) ==
    IF Key(email) \in DOMAIN tbl THEN tbl
    ELSE Store(tbl, Key(email),
               [reason |-> reason, source |-> source, added_at |-> t])

\* _save: the file is rewritten in full; an OSError is logged and swallowed
Saved(tbl, ok) == IF ok THEN tbl ELSE file

\* _load: keys are lower-cased; a missing or unreadable file gives {}
Loaded(f) ==
    [k \in {lower(j) : j \in DOMAIN f} |->
        f[CHOOSE j \in DOMAIN f : lower(j) = k]]

SuppEmailSamples ==
    { <<"a","@","b",".","c","o">>,
      <<" ","A","@","B",".","C","O">>,
      <<"c","@","b",".","c","o">> }
ReasonSamples == {"unsubscribe", "bounce"}
SourceSamples == {"manual", "webhook"}

Add(email, reason, source) ==
    /\ s_time < MaxSuppOps
    /\ s_time' = s_time + 1
    /\ s_last' = [op |-> "add", email |-> email, reason |-> reason,
                  source |-> source, at |-> s_time]
    /\ cache' = AddEntry(cache, email, reason, source, s_time)
    /\ IF cache' = cache
       THEN file' = file
       ELSE \E ok \in BOOLEAN : file' = Saved(cache', ok)
    /\ s_arg' = <<>>
    /\ s_out' = None
    /\ UNCHANGED <<retryVars, rateVars, enrichVars, pipeVars, replyVars,
                   monitorVars, directVars, instantlyVars, urlVars, costVars,
                   workerVars, peerVars, alertVars, costLogVars>>

SuppressionAdd ==
    \E email \in SuppEmailSamples, reason \in ReasonSamples,
       source \in SourceSamples : Add(email, reason, source)

Remove(email) ==
    /\ s_time < MaxSuppOps
    /\ s_time' = s_time + 1
    /\ s_last' = [op |-> "remove", email |-> email, reason |-> "",
                  source |-> "", at |-> s_time]
    /\ IF Key(email) \in DOMAIN cache
       THEN /\ cache' = Delete(cache, Key(email))
            /\ \E ok \in BOOLEAN : file' = Saved(cache', ok)
       ELSE UNCHANGED <<cache, file>>
    /\ s_arg' = <<>>
    /\ s_out' = None
    /\ UNCHANGED <<retryVars, rateVars, enrichVars, pipeVars, replyVars,
                   monitorVars, directVars, instantlyVars, urlVars, costVars,
                   workerVars, peerVars, alertVars, costLogVars>>

SuppressionRemove == \E email \in SuppEmailSamples : Remove(email)

\* bulk_add: entries without an e-mail and entries already suppressed are
\* skipped, the others go through add (reason and source default when absent)
RECURSIVE BulkAddTable(_, _, _)
BulkAddTable(tbl, entries, t) ==
    IF entries = <<>> THEN tbl
    ELSE LET e == Head(entries)
             next == IF e.email # <<>> /\ ~is_suppressed(tbl, e.email)
                     THEN AddEntry(tbl, e.email, e.reason, e.source, t)
                     ELSE tbl
         IN  BulkAddTable(next, Tail(entries), t)

\* variant: every entry that has an e-mail is counted
RECURSIVE BulkAddCount_everyEmail(_, _, _)
BulkAddCount_everyEmail(tbl, entries, t) ==
    IF entries = <<>> THEN 0
    ELSE (IF Head(entries).email # <<>> THEN 1 ELSE 0)
             + BulkAddCount_everyEmail(tbl, Tail(entries), t)

\* the count bulk_add logs
RECURSIVE BulkAddCount(_, _, _)
BulkAddCount(tbl, entries, t) ==
    IF entries = <<>> THEN 0
    ELSE LET e == Head(entries)
             new == e.email # <<>> /\ ~is_suppressed(tbl, e.email)
             next == IF new
                     THEN AddEntry(tbl, e.email, e.reason, e.source, t)
                     ELSE tbl
         IN  (IF new THEN 1 ELSE 0) + BulkAddCount(next, Tail(entries), t)

BulkEntrySamples ==
    { [email |-> <<" ","A","@","B",".","C","O">>, reason |-> "bulk_import",
       source |-> "manual"],
      [email |-> <<"c","@","b",".","c","o">>, reason |-> "unsubscribe",
       source |-> "webhook"],
      [email |-> <<>>, reason |-> "bounce", source |-> "manual"] }

MaxBulk == 2            \* longest entries list given to bulk_add

\* the tables _save is called with during bulk_add, one per performed add
RECURSIVE BulkAddSaves(_, _, _)
BulkAddSaves(tbl, entries, t) ==
    IF entries = <<>> THEN {}
    ELSE LET e == Head(entries)
             new == e.email # <<>> /\ ~is_suppressed(tbl, e.email)
             next == IF new
                     THEN AddEntry(tbl, e.email, e.reason, e.source, t)
                     ELSE tbl
         IN  (IF new THEN {next} ELSE {})
                 \cup BulkAddSaves(next, Tail(entries), t)

BulkAdd(entries) ==
    /\ s_time < MaxSuppOps
    /\ s_time' = s_time + 1
    /\ s_last' = [op |-> "bulk_add", email |-> <<>>, reason |-> "",
                  source |-> "", at |-> s_time]
    /\ cache' = BulkAddTable(cache, entries, s_time)
    /\ \E ok \in BOOLEAN :
          IF ok \/ BulkAddSaves(cache, entries, s_time) = {}
          THEN file' = Saved(cache', cache' # cache)
          ELSE file' \in {file} \cup BulkAddSaves(cache, entries, s_time)
    /\ s_arg' = entries
    /\ s_out' = BulkAddCount(cache, entries, s_time)
    /\ UNCHANGED <<retryVars, rateVars, enrichVars, pipeVars, replyVars,
                   monitorVars, directVars, instantlyVars, urlVars, costVars,
                   workerVars, peerVars, alertVars, costLogVars>>

SuppressionBulkAdd ==
    \E n \in 0..MaxBulk : \E entries \in [1..n -> BulkEntrySamples] :
        BulkAdd(entries)

\* a new SuppressionManager on the same file: __init__ and _load
SuppressionLoad ==
    /\ s_time < MaxSuppOps
    /\ s_time' = s_time + 1
    /\ s_last' = [op |-> "load", email |-> <<>>, reason |-> "",
                  source |-> "", at |-> s_time]
    /\ \E ok \in BOOLEAN : cache' = IF ok THEN Loaded(file) ELSE EmptyTable
    /\ s_arg' = <<>>
    /\ s_out' = None
    /\ UNCHANGED file
    /\ UNCHANGED <<retryVars, rateVars, enrichVars, pipeVars, replyVars,
                   monitorVars, directVars, instantlyVars, urlVars, costVars,
                   workerVars, peerVars, alertVars, costLogVars>>

\* the e-mails is_suppressed is asked about: "" and None, spellings of the
\* addresses that are added and removed, and an address that never is
QuerySamples ==
    SuppEmailSamples \cup
    { <<>>, PyNone,
      <<"C","@","b",".","c","o"," ">>,
      <<"d","@","b",".","c","o">> }

IsSuppressed(email) ==
    /\ s_time < MaxSuppOps
    /\ s_time' = s_time + 1
    /\ s_last' = [op |-> "is_suppressed", email |-> email, reason |-> "",
                  source |-> "", at |-> s_time]
    /\ s_arg' = <<>>
    /\ s_out' = Returns(is_suppressed(cache, email))
    /\ UNCHANGED <<cache, file>>
    /\ UNCHANGED <<retryVars, rateVars, enrichVars, pipeVars, replyVars,
                   monitorVars, directVars, instantlyVars, urlVars, costVars,
                   workerVars, peerVars, alertVars, costLogVars>>

SuppressionIsSuppressed == \E email \in QuerySamples : IsSuppressed(email)

\* dict.get(key, default)
Get(d, key, default) == IF key \in DOMAIN d THEN d[key] ELSE default

\* variant: leads are put in front of the lists
RECURSIVE filter_loop_prepend(_, _, _, _)
filter_loop_prepend(tbl, ls, allowed, suppressed) ==
    IF ls = <<>> THEN [allowed |-> allowed, suppressed |-> suppressed]
    ELSE IF is_suppressed(tbl, Get(Head(ls), "email", <<>>))
         THEN filter_loop_prepend(tbl, Tail(ls), allowed,
                                  <<Head(ls)>> \o suppressed)
         ELSE filter_loop_prepend(tbl, Tail(ls), <<Head(ls)>> \o allowed,
                                  suppressed)

\* the for loop of filter_leads: each lead is appended to one of two lists
RECURSIVE filter_loop(_, _, _, _)
filter_loop(tbl, ls, allowed, suppressed) ==
    IF ls = <<>> THEN [allowed |-> allowed, suppressed |-> suppressed]
    ELSE IF is_suppressed(tbl, Get(Head(ls), "email", <<>>))
         THEN filter_loop(tbl, Tail(ls), allowed,
                          Append(suppressed, Head(ls)))
         ELSE filter_loop(tbl, Tail(ls), Append(allowed, Head(ls)),
                          suppressed)

\* filter_leads(leads) -> (allowed, suppressed)
filter_leads(tbl, ls) == filter_loop(tbl, ls, <<>>, <<>>)

\* leads given to filter_leads: two leads that share an address in two
\* spellings, a lead with another address, a lead without the email key
FilterLeadSamples ==
    { [name |-> "L1", email |-> <<"a","@","b",".","c","o">>],
      [name |-> "L2", email |-> <<" ","A","@","B",".","C","O">>],
      [name |-> "L3", email |-> <<"c","@","b",".","c","o">>],
      [name |-> "L4"] }

MaxLeads == 2           \* longest list given to filter_leads

FilterLeads(ls) ==
    /\ s_time < MaxSuppOps
    /\ s_time' = s_time + 1
    /\ s_last' = [op |-> "filter_leads", email |-> <<>>, reason |-> "",
                  source |-> "", at |-> s_time]
    /\ s_arg' = ls
    /\ s_out' = Returns(filter_leads(cache, ls))
    /\ UNCHANGED <<cache, file>>
    /\ UNCHANGED <<retryVars, rateVars, enrichVars, pipeVars, replyVars,
                   monitorVars, directVars, instantlyVars, urlVars, costVars,
                   workerVars, peerVars, alertVars, costLogVars>>

SuppressionFilterLeads ==
    \E n \in 0..MaxLeads : \E ls \in [1..n -> FilterLeadSamples] :
        FilterLeads(ls)

InitSupp(files) ==
    /\ file \in files
    /\ cache = Loaded(file)
    /\ s_time = 0
    /\ s_last = [op |-> "init", email |-> <<>>, reason |-> "",
                 source |-> "", at |-> 0]
    /\ s_arg = <<>>
    /\ s_out = None

NextSupp ==
    \/ SuppressionAdd
    \/ SuppressionRemove
    \/ SuppressionBulkAdd
    \/ SuppressionLoad

NextSuppQuery ==
    \/ SuppressionAdd
    \/ SuppressionRemove
    \/ SuppressionIsSuppressed
    \/ SuppressionFilterLeads

(***************************************************************************)
(* EmailEnricher (src/src/enrichment/waterfall.py).  A provider is given   *)
(* as a script: what its HTTP endpoint does on each successive request of  *)
(* one wrapped call (an e-mail or a result string, or a requests           *)
(* exception).                                                             *)
(***************************************************************************)
ProviderRetries == 2    \* @retry_with_backoff(max_retries=2) of the providers

MaxBatch == 2           \* longest list given to process_batch

NoEmail == <<>>         \* "" or None: falsy, no address

\* the value of lead["email_verified"]: "unset" while the key is absent
PyBool(b) == IF b THEN "True" ELSE "False"

\* body of _prospeo_search / _hunter_search for one response
DomainSearch(resp) ==
    IF resp.exc = "none" THEN Returns(sanitize_email(resp.value)) ELSE resp

\* variant: a "risky" result is accepted as well
VerifyRequest_lenient(resp) ==
    IF resp.exc = "none" THEN Returns(resp.value \in {"valid", "risky"})
    ELSE resp

\* body of verify_email for one response (the e-mail is valid on entry)
VerifyRequest(resp) ==
    IF resp.exc = "none" THEN Returns(resp.value = "valid") ELSE resp

\* the decorated _prospeo_search / _hunter_search: what reaches enrich, and
\* the number of requests made
SearchWrapped(script) ==
    RunWrapper([i \in 1..Len(script) |-> DomainSearch(script[i])],
               0, ProviderRetries)

\* the decorated verify_email: no request for an e-mail that is not valid
verify_email(email, script) ==
    IF ~is_valid_email(email) THEN [outcome |-> Returns(FALSE), calls |-> 0]
    ELSE RunWrapper([i \in 1..Len(script) |-> VerifyRequest(script[i])],
                    0, ProviderRetries)

\* variant: only the network exceptions are swallowed
Caught_networkOnly(exc) == exc \in {"ConnectionError", "Timeout"}

\* the except clauses of enrich: HTTPError and RequestException are logged
\* and swallowed, anything else propagates
Caught(exc) == exc = "HTTPError" \/ exc \in RequestExceptions

\* a record of qlog: the provider, its argument, the response to the last
\* request (None when no request was made), and what the decorated function
\* returned or raised
Query(op, arg, script, w) ==
    [op |-> op, arg |-> arg, outcome |-> w.outcome,
     resp |-> IF w.calls = 0 THEN None ELSE script[w.calls]]

Website == <<"h","t","t","p","s",":","/","/","b",".","c","o">>

FailureSamples == {HTTPError(404), HTTPError(503), Raises("ConnectionError")}

SearchResponses ==
    { Returns(NoEmail),
      Returns(<<"c","@","b",".","c","o">>),
      Returns(<<"a","@">>) } \cup FailureSamples

VerifyResponses ==
    { Returns("valid"), Returns("risky"), Returns("unknown"),
      Returns("invalid"), Returns("") } \cup FailureSamples

SearchScripts == [1..(ProviderRetries + 1) -> SearchResponses]
VerifyScripts == [1..(ProviderRetries + 1) -> VerifyResponses]

Lead(email, website) ==
    [email |-> email, website |-> website,
     enrichment_source |-> "unset", email_verified |-> "unset"]

LeadSamples ==
    { Lead(<<"a","@","b",".","c","o">>, Website),
      Lead(<<" ","A","@","B",".","C","O">>, NoEmail),
      Lead(<<"a","@">>, Website),
      Lead(NoEmail, NoEmail) }

\* variant: every lead is kept, verified or not
FinishLead_keepAll(lead) ==
    /\ leads' = [leads EXCEPT ![pb_i] = lead]
    /\ enriched' = Append(enriched, pb_i)
    /\ pb_i' = pb_i + 1
    /\ pb_pc' = "next"

\* process_batch, lines 150-156: keep or drop the lead enrich_and_verify
\* returned, then go to the next one
FinishLead(lead) ==
    /\ leads' = [leads EXCEPT ![pb_i] = lead]
    /\ enriched' = IF lead.email_verified = "True"
                   THEN Append(enriched, pb_i) ELSE enriched
    /\ pb_i' = pb_i + 1
    /\ pb_pc' = "next"

\* variant: verify_email is called whatever enrich returned
AfterEnrich_alwaysVerify(lead) ==
    /\ leads' = [leads EXCEPT ![pb_i] = lead]
    /\ pb_pc' = "verify"
    /\ UNCHANGED <<pb_i, enriched>>

\* enrich_and_verify, lines 139-142, for the lead enrich returned
AfterEnrich(lead) ==
    IF is_valid_email(lead.email)
    THEN /\ leads' = [leads EXCEPT ![pb_i] = lead]
         /\ pb_pc' = "verify"
         /\ UNCHANGED <<pb_i, enriched>>
    ELSE FinishLead([lead EXCEPT !.email_verified = "False"])

\* variant: Hunter is asked whatever Prospeo gave
Layer3Needed_always(email) == TRUE

\* enrich, line 94: Hunter is asked only while no valid e-mail is held
Layer3Needed(email) == ~is_valid_email(email)

\* enrich, lines 64-78: Layer 1 and the website check
EnrichStart ==
    /\ pb_pc = "next"
    /\ pb_i <= Len(leads)
    /\ qlog' = <<>>
    /\ LET lead == leads[pb_i]
       IN  IF is_valid_email(lead.email)
           THEN /\ AfterEnrich([lead EXCEPT !.enrichment_source = "scraped"])
                /\ UNCHANGED <<e_email, e_source>>
           ELSE IF lead.website = NoEmail
           THEN /\ AfterEnrich([lead EXCEPT !.enrichment_source = "none"])
                /\ UNCHANGED <<e_email, e_source>>
           ELSE /\ e_email' = lead.email
                /\ e_source' = "scraped"
                /\ pb_pc' = "prospeo"
                /\ UNCHANGED <<leads, pb_i, enriched>>
    /\ UNCHANGED <<retryVars, rateVars, suppVars, pipeVars, replyVars,
                   monitorVars, directVars, instantlyVars, urlVars, costVars,
                   workerVars, peerVars, alertVars, costLogVars>>

\* enrich, lines 105-107, then the rest of the iteration
EnrichEnd(email, source) ==
    AfterEnrich([leads[pb_i] EXCEPT !.email = email,
                                     !.enrichment_source = source])

\* enrich, lines 80-93: Layer 2 (Prospeo) and the test guarding Layer 3
ProspeoSearch ==
    /\ pb_pc = "prospeo"
    /\ \E script \in SearchScripts :
         LET w == SearchWrapped(script)
             r == w.outcome
             found == r.exc = "none" /\ r.value # NoEmail
             email == IF found THEN r.value ELSE e_email
             source == IF found THEN "prospeo" ELSE e_source
         IN  /\ qlog' = Append(qlog, Query("prospeo", Website, script, w))
             /\ IF r.exc # "none" /\ ~Caught(r.exc)
                THEN /\ pb_pc' = "raised"
                     /\ UNCHANGED <<leads, pb_i, enriched, e_email, e_source>>
                ELSE IF Layer3Needed(email)
                THEN /\ pb_pc' = "hunter"
                     /\ e_email' = email
                     /\ e_source' = source
                     /\ UNCHANGED <<leads, pb_i, enriched>>
                ELSE /\ EnrichEnd(email, source)
                     /\ e_email' = email
                     /\ e_source' = source
    /\ UNCHANGED <<retryVars, rateVars, suppVars, pipeVars, replyVars,
                   monitorVars, directVars, instantlyVars, urlVars, costVars,
                   workerVars, peerVars, alertVars, costLogVars>>

\* enrich, lines 94-107: Layer 3 (Hunter)
HunterSearch ==
    /\ pb_pc = "hunter"
    /\ \E script \in SearchScripts :
         LET w == SearchWrapped(script)
             r == w.outcome
             found == r.exc = "none" /\ r.value # NoEmail
             email == IF found THEN r.value ELSE e_email
             source == IF found THEN "hunter" ELSE e_source
         IN  /\ qlog' = Append(qlog, Query("hunter", Website, script, w))
             /\ IF r.exc # "none" /\ ~Caught(r.exc)
                THEN /\ pb_pc' = "raised"
                     /\ UNCHANGED <<leads, pb_i, enriched, e_email, e_source>>
                ELSE /\ EnrichEnd(email, source)
                     /\ e_email' = email
                     /\ e_source' = source
    /\ UNCHANGED <<retryVars, rateVars, suppVars, pipeVars, replyVars,
                   monitorVars, directVars, instantlyVars, urlVars, costVars,
                   workerVars, peerVars, alertVars, costLogVars>>

\* enrich_and_verify, line 140: the verification call; an exception leaving
\* verify_email is caught neither there nor in process_batch
VerifyEmail ==
    /\ pb_pc = "verify"
    /\ \E script \in VerifyScripts :
         LET w == verify_email(leads[pb_i].email, script)
             r == w.outcome
         IN  /\ qlog' = Append(qlog, Query("verify", leads[pb_i].email,
                                            script, w))
             /\ IF r.exc # "none"
                THEN /\ pb_pc' = "raised"
                     /\ UNCHANGED <<leads, pb_i, enriched>>
                ELSE FinishLead([leads[pb_i] EXCEPT
                                    !.email_verified = PyBool(r.value)])
    /\ UNCHANGED <<e_email, e_source>>
    /\ UNCHANGED <<retryVars, rateVars, suppVars, pipeVars, replyVars,
                   monitorVars, directVars, instantlyVars, urlVars, costVars,
                   workerVars, peerVars, alertVars, costLogVars>>

\* process_batch, lines 157-160: the loop is over, return enriched
ProcessBatchReturn ==
    /\ pb_pc = "next"
    /\ pb_i > Len(leads)
    /\ pb_pc' = "returned"
    /\ UNCHANGED <<leads, pb_i, enriched, e_email, e_source, qlog>>
    /\ UNCHANGED <<retryVars, rateVars, suppVars, pipeVars, replyVars,
                   monitorVars, directVars, instantlyVars, urlVars, costVars,
                   workerVars, peerVars, alertVars, costLogVars>>

InitEnrich(batches, pc) ==
    /\ leads \in batches
    /\ pb_i = 1
    /\ pb_pc = pc
    /\ enriched = <<>>
    /\ e_email = NoEmail
    /\ e_source = "scraped"
    /\ qlog = <<>>

Batches == UNION {[1..n -> LeadSamples] : n \in 0..MaxBatch}

NextEnrich ==
    \/ EnrichStart
    \/ ProspeoSearch
    \/ HunterSearch
    \/ VerifyEmail
    \/ ProcessBatchReturn

(***************************************************************************)
(* run_pipeline (src/scripts/run_pipeline.py), with the scraper            *)
(* (src/src/scraping/apify_google_maps.py) and the outreach client         *)
(* (src/src/outreach/instantly_client.py).  The suppression table is the   *)
(* one persisted by SuppressionManager.                                    *)
(***************************************************************************)
\* GoogleMapsScraper.scrape, line 104: leads without an e-mail are left out
HaveEmail(items) == SelectSeq(items, LAMBDA l : l.email # NoEmail)

\* GoogleMapsScraper.scrape, lines 108-113: first lead of each lower-cased
\* e-mail
RECURSIVE Deduplicate(_, _)
Deduplicate(items, seen) ==
    IF items = <<>> THEN <<>>
    ELSE IF lower(Head(items).email) \in seen
         THEN Deduplicate(Tail(items), seen)
         ELSE <<Head(items)>> \o
              Deduplicate(Tail(items), seen \cup {lower(Head(items).email)})

scrape(items) == Deduplicate(HaveEmail(items), {})

\* InstantlyClient._format_lead: the e-mail is sent as it is in the lead
\* (the other fields of the payload are not followed)
_format_lead(lead) == [email |-> lead.email]

\* variant: every lead is formatted, whatever its e-mail
BatchPayload_unfiltered(ls) == [j \in 1..Len(ls) |-> _format_lead(ls[j])]

\* InstantlyClient.add_leads_batch, lines 73-82: the payload of the request
BatchPayload(ls) ==
    LET valid_leads == SelectSeq(ls, LAMBDA l : is_valid_email(l.email))
    IN  [j \in 1..Len(valid_leads) |-> _format_lead(valid_leads[j])]

\* what the platform does with one request
PlatformResponses ==
    {Returns("ok"), HTTPError(429), Raises("Timeout")} \cup FailureSamples

\* what one call of a client method did: what it returned or raised, and
\* the payloads it posted
Posted(outcome, requests) == [outcome |-> outcome, requests |-> requests]

\* InstantlyClient.add_leads_batch, lines 63-98, for the response resp of
\* the platform: one request, unless no lead is left after the filter; the
\* method carries no decorator, so what the request raises leaves it
add_leads_batch(ls, resp) ==
    IF BatchPayload(ls) = <<>>
    THEN Posted(Returns("{}"), <<>>)
    ELSE Posted(resp, <<BatchPayload(ls)>>)

AddLeadRetries == 3     \* @retry_with_backoff(max_retries=3) of add_lead

\* the body of add_lead, lines 42-61, for the response resp: ValueError
\* before any request for an e-mail that is not valid
add_lead_body(lead, resp) ==
    IF ~is_valid_email(lead.email)
    THEN Posted(Raises("ValueError"), <<>>)
    ELSE Posted(resp, <<<<_format_lead(lead)>>>>)

\* the decorated add_lead: the body is run again by retry_with_backoff on a
\* transient failure; every run of the body posts what the body posts
add_lead(lead, script) ==
    LET w == RunWrapper([i \in 1..Len(script) |->
                            add_lead_body(lead, script[i]).outcome],
                        0, AddLeadRetries)
        posts == [i \in 1..w.calls |-> add_lead_body(lead, script[i]).requests]
        RECURSIVE Concat(_)
        Concat(ss) == IF ss = <<>> THEN <<>> ELSE Head(ss) \o Concat(Tail(ss))
    IN  [outcome |-> w.outcome, requests |-> Concat(posts), calls |-> w.calls]

\* verified_leads: the dicts process_batch returned
VerifiedLeads == [j \in 1..Len(enriched) |-> leads[enriched[j]]]

\* Stage 1: scrape; an exception of the scraper ends run_pipeline
Stage1Scrape ==
    /\ p_pc = "stage1"
    /\ \E ok \in BOOLEAN, items \in Batches :
         IF ~ok
         THEN /\ p_pc' = "aborted"
              /\ UNCHANGED <<leads, pb_i, pb_pc, enriched, returned>>
         ELSE /\ leads' = scrape(items)
              /\ pb_i' = 1
              /\ enriched' = <<>>
              /\ returned' = <<>>
              /\ IF leads' = <<>>
                 THEN p_pc' = "done" /\ UNCHANGED pb_pc
                 ELSE p_pc' = "stage2" /\ pb_pc' = "next"
    /\ UNCHANGED <<e_email, e_source, qlog, dry_run, skip_outreach, pushed,
                   p_push>>
    /\ UNCHANGED <<retryVars, rateVars, suppVars, replyVars, monitorVars,
                   directVars, instantlyVars, urlVars, costVars, workerVars,
                   peerVars, alertVars, costLogVars>>

\* Stage 2, lines 55-60: process_batch has returned or raised
Stage2End ==
    /\ p_pc = "stage2"
    /\ pb_pc \in {"returned", "raised"}
    /\ p_pc' = IF pb_pc = "raised" THEN "aborted"
               ELSE IF enriched = <<>> THEN "done" ELSE "stage3"
    /\ UNCHANGED <<dry_run, skip_outreach, returned, pushed, p_push>>
    /\ UNCHANGED <<retryVars, rateVars, suppVars, enrichVars, replyVars,
                   monitorVars, directVars, instantlyVars, urlVars, costVars,
                   workerVars, peerVars, alertVars, costLogVars>>

\* Stage 3 and the results file, lines 64-94: personalization adds fields to
\* the leads and leaves their e-mail alone; an uncaught exception of the
\* writer or of the file ends run_pipeline
Stage3Personalize ==
    /\ p_pc = "stage3"
    /\ \E ok \in BOOLEAN : p_pc' = IF ok THEN "stage4" ELSE "aborted"
    /\ UNCHANGED <<dry_run, skip_outreach, returned, pushed, p_push>>
    /\ UNCHANGED <<retryVars, rateVars, suppVars, enrichVars, replyVars,
                   monitorVars, directVars, instantlyVars, urlVars, costVars,
                   workerVars, peerVars, alertVars, costLogVars>>

\* variant: only dry_run keeps the push from happening
PushSkipped_dryRunOnly(dry, skip) == dry

\* Stage 4, lines 97-103: the two early returns before the push
PushSkipped(dry, skip) == dry \/ skip

\* Stage 4, lines 96-120: the push, unless dry_run or skip_outreach; the
\* one call of add_leads_batch is inside try / except Exception, so that a
\* failure of the request is logged and run_pipeline still returns
Stage4Push ==
    /\ p_pc = "stage4"
    /\ p_pc' = "done"
    /\ returned' = enriched
    /\ IF PushSkipped(dry_run, skip_outreach)
       THEN UNCHANGED <<pushed, p_push>>
       ELSE \E resp \in PlatformResponses :
               LET r == add_leads_batch(VerifiedLeads, resp)
               IN  /\ pushed' = pushed \o r.requests
                   /\ p_push' = r.outcome
    /\ UNCHANGED <<dry_run, skip_outreach>>
    /\ UNCHANGED <<retryVars, rateVars, suppVars, enrichVars, replyVars,
                   monitorVars, directVars, instantlyVars, urlVars, costVars,
                   workerVars, peerVars, alertVars, costLogVars>>

InitPipe(pc, flags) ==
    /\ p_pc = pc
    /\ dry_run \in flags
    /\ skip_outreach \in flags
    /\ returned = <<>>
    /\ pushed = <<>>
    /\ p_push = NotCalled

InitPipeIdle == InitPipe("direct", {FALSE})

\* the tables SuppressionManager may have persisted before the run
PersistedTables ==
    { EmptyTable,
      AddEntry(EmptyTable, <<" ","A","@","B",".","C","O">>,
               "unsubscribe", "webhook", 0) }

NextPipeline ==
    \/ Stage1Scrape
    \/ EnrichStart
    \/ ProspeoSearch
    \/ HunterSearch
    \/ VerifyEmail
    \/ ProcessBatchReturn
    \/ Stage2End
    \/ Stage3Personalize
    \/ Stage4Push

(***************************************************************************)
(* ReplyClassifier (src/src/reply_handling/classifier.py).  The category   *)
(* tokens are strings of characters, so that strip() and upper() are       *)
(* computed.  The services a method calls are given by what they do when   *)
(* called: messages.create of the classification and drafting service,     *)
(* requests.post of the notification sink.                                 *)
(***************************************************************************)
\* str.upper() on one character
upper_char(c) ==
    IF \E i \in 1..26 : LowerCase[i] = c
    THEN UpperCase[CHOOSE i \in 1..26 : LowerCase[i] = c]
    ELSE c

\* str.upper()
upper(s) == [i \in 1..Len(s) |-> upper_char(s[i])]

INTERESTED == <<"I","N","T","E","R","E","S","T","E","D">>
NOT_INTERESTED == <<"N","O","T","_","I","N","T","E","R","E","S","T","E","D">>
MEETING_REQUEST ==
    <<"M","E","E","T","I","N","G","_","R","E","Q","U","E","S","T">>
OUT_OF_OFFICE == <<"O","U","T","_","O","F","_","O","F","F","I","C","E">>
UNSUBSCRIBE == <<"U","N","S","U","B","S","C","R","I","B","E">>
QUESTION == <<"Q","U","E","S","T","I","O","N">>

VALID_CATEGORIES ==
    {INTERESTED, NOT_INTERESTED, MEETING_REQUEST, OUT_OF_OFFICE, UNSUBSCRIBE,
     QUESTION}

ClassifyRetries == 2

\* variant: the token is returned as the service gave it, trimmed and
\* upper-cased
classify_body_noCoerce(resp) ==
    IF resp.exc # "none" THEN resp ELSE Returns(upper(strip(resp.value)))

\* the body of classify, given what messages.create does
classify_body(resp) ==
    IF resp.exc # "none" THEN resp
    ELSE LET category == upper(strip(resp.value))
         IN  Returns(IF category \notin VALID_CATEGORIES THEN QUESTION
                     ELSE category)

\* the decorated classify, the service answering every request of the call
\* with resp: what reaches the caller, and the number of requests made
classify_wrapped(resp) ==
    RunWrapper([i \in 1..(ClassifyRetries + 1) |-> classify_body(resp)],
               0, ClassifyRetries)

classify(resp) == classify_wrapped(resp).outcome

\* variant: no exception of the sink is caught
SlackCaught_nothing(exc) == FALSE

\* except requests.exceptions.RequestException
SlackCaught(exc) == exc \in RequestExceptions

\* _send_slack_alert: None, or the exception it lets through
_send_slack_alert(url, post) ==
    IF url = "" THEN None
    ELSE IF post.exc # "none" /\ ~SlackCaught(post.exc) THEN post
    ELSE None

\* _draft_response: the stripped text, or the exception of the service
_draft_response(draft) ==
    IF draft.exc # "none" THEN draft ELSE Returns(strip(draft.value))

\* variant: the branch of OUT_OF_OFFICE is missing
route_action_noReschedule(category) ==
    IF category = INTERESTED \/ category = MEETING_REQUEST THEN "slack_alert"
    ELSE IF category = NOT_INTERESTED THEN "log_and_remove"
    ELSE IF category = QUESTION THEN "draft_response"
    ELSE IF category = UNSUBSCRIBE THEN "suppress"
    ELSE ""

\* the value the if/elif chain of route gives action["action"]
route_action(category) ==
    IF category = INTERESTED \/ category = MEETING_REQUEST THEN "slack_alert"
    ELSE IF category = NOT_INTERESTED THEN "log_and_remove"
    ELSE IF category = QUESTION THEN "draft_response"
    ELSE IF category = OUT_OF_OFFICE THEN "reschedule"
    ELSE IF category = UNSUBSCRIBE THEN "suppress"
    ELSE ""

\* route: the action record, or the exception a called service let through
route(email, category, url, post, draft) ==
    LET action == [email |-> email, category |-> category,
                   action |-> route_action(category)]
    IN  IF category = INTERESTED \/ category = MEETING_REQUEST
        THEN LET sent == _send_slack_alert(url, post)
             IN  IF sent.exc # "none" THEN sent ELSE Returns(action)
        ELSE IF category = QUESTION
        THEN LET text == _draft_response(draft)
             IN  IF text.exc # "none" THEN text
                 ELSE Returns([email |-> email, category |-> category,
                               action |-> route_action(category),
                               draft |-> text.value])
        ELSE Returns(action)

\* what the classification service answers: the six tokens in several
\* spellings, tokens that are none of the six, or a failure of the call
TokenSamples ==
    { INTERESTED,
      <<" ","i","n","t","e","r","e","s","t","e","d","\n">>,
      NOT_INTERESTED,
      <<"M","e","e","t","i","n","g","_","R","e","q","u","e","s","t">>,
      OUT_OF_OFFICE,
      <<"u","n","s","u","b","s","c","r","i","b","e"," ">>,
      QUESTION,
      <<"M","A","Y","B","E">>,
      <<"I","N","T","E","R","E","S","T","E","D",".">>,
      <<"N","O","T"," ","I","N","T","E","R","E","S","T","E","D">>,
      <<>> }

\* the exceptions of the anthropic client: no connection, a timeout, HTTP
\* 429, and another HTTP status (4xx or 5xx)
LLMFailures ==
    {Raises("APIConnectionError"), Raises("APITimeoutError"),
     Raises("RateLimitError"), Raises("APIStatusError")}

ClassifyResponses == {Returns(t) : t \in TokenSamples} \cup LLMFailures

DraftResponses ==
    {Returns(<<" ","o","k","\n">>), Raises("APIConnectionError")}

\* what requests.post does: a response (no raise_for_status is made) or an
\* exception of requests
PostResponses ==
    {Returns(200), Returns(500), Raises("ConnectionError"), Raises("Timeout")}

ReplyEmailSamples == {<<"a","@","b",".","c","o">>, <<"c","@","b",".","c","o">>}

\* the categories route is called with: the six and one that is none of them
RouteCategorySamples == VALID_CATEGORIES \cup {<<"M","A","Y","B","E">>}

\* the services route calls for a category: the sink for the two alert
\* categories when a webhook is configured, the drafting service for QUESTION
PostCalled(category, url, post) ==
    IF (category = INTERESTED \/ category = MEETING_REQUEST) /\ url # ""
    THEN post ELSE NotCalled

DraftCalled(category, draft) ==
    IF category = QUESTION THEN draft ELSE NotCalled

Classify(resp) ==
    /\ c_last' = [op |-> "classify", email |-> <<>>, category |-> <<>>,
                  llm |-> resp, attempts |-> classify_wrapped(resp).calls,
                  post |-> NotCalled, draft |-> NotCalled]
    /\ c_out' = classify(resp)
    /\ UNCHANGED slack_webhook_url
    /\ UNCHANGED <<retryVars, rateVars, suppVars, enrichVars, pipeVars,
                   monitorVars, directVars, instantlyVars, urlVars, costVars,
                   workerVars, peerVars, alertVars, costLogVars>>

ReplyClassify == \E resp \in ClassifyResponses : Classify(resp)

Route(email, category, post, draft) ==
    /\ c_last' = [op |-> "route", email |-> email, category |-> category,
                  llm |-> NotCalled, attempts |-> 0,
                  post |-> PostCalled(category, slack_webhook_url, post),
                  draft |-> DraftCalled(category, draft)]
    /\ c_out' = route(email, category, slack_webhook_url, post, draft)
    /\ UNCHANGED slack_webhook_url
    /\ UNCHANGED <<retryVars, rateVars, suppVars, enrichVars, pipeVars,
                   monitorVars, directVars, instantlyVars, urlVars, costVars,
                   workerVars, peerVars, alertVars, costLogVars>>

ReplyRoute ==
    \E email \in ReplyEmailSamples, category \in RouteCategorySamples,
       post \in PostResponses, draft \in DraftResponses :
        Route(email, category, post, draft)

\* process_reply: classify, then route with the category classify returned
ProcessReply(email, resp, post, draft) ==
    LET classified == classify(resp)
    IN  /\ IF classified.exc # "none"
           THEN /\ c_last' = [op |-> "process_reply", email |-> email,
                              category |-> <<>>, llm |-> resp,
                              attempts |-> classify_wrapped(resp).calls,
                              post |-> NotCalled, draft |-> NotCalled]
                /\ c_out' = classified
           ELSE /\ c_last' = [op |-> "process_reply", email |-> email,
                              category |-> classified.value, llm |-> resp,
                              attempts |-> classify_wrapped(resp).calls,
                              post |-> PostCalled(classified.value,
                                                  slack_webhook_url, post),
                              draft |-> DraftCalled(classified.value, draft)]
                /\ c_out' = route(email, classified.value, slack_webhook_url,
                                  post, draft)
        /\ UNCHANGED slack_webhook_url
        /\ UNCHANGED <<retryVars, rateVars, suppVars, enrichVars, pipeVars,
                       monitorVars, directVars, instantlyVars, urlVars,
                       costVars, workerVars, peerVars, alertVars,
                       costLogVars>>

ReplyProcessReply ==
    \E email \in ReplyEmailSamples, resp \in ClassifyResponses,
       post \in PostResponses, draft \in DraftResponses :
        ProcessReply(email, resp, post, draft)

InitReply(urls) ==
    /\ slack_webhook_url \in urls
    /\ c_last = [op |-> "init", email |-> <<>>, category |-> <<>>,
                 llm |-> NotCalled, attempts |-> 0, post |-> NotCalled,
                 draft |-> NotCalled]
    /\ c_out = None

NextReply ==
    \/ ReplyClassify
    \/ ReplyRoute
    \/ ReplyProcessReply

(***************************************************************************)
(* CampaignHealth and CampaignMonitor                                      *)
(* (src/src/monitoring/campaign_monitor.py).  A percentage is kept as an   *)
(* exact fraction n/d with d > 0 and compared by cross-multiplication; the *)
(* counters of a snapshot are non-negative.                                *)
(***************************************************************************)
Pct(n, d) == [n |-> n, d |-> d]

Gt(a, b) == a.n * b.d > b.n * a.d
Lt(a, b) == a.n * b.d < b.n * a.d
Le(a, b) == a.n * b.d <= b.n * a.d

\* variant: the ratio is not turned into a percentage
Rate_perUnit(count, total) ==
    IF total # 0 THEN Pct(count, total) ELSE Pct(0, 1)

\* (count / self.total_sent * 100) if self.total_sent else 0.0
Rate(count, total) ==
    IF total # 0 THEN Pct(count * 100, total) ELSE Pct(0, 1)

bounce_rate(h) == Rate(h.total_bounced, h.total_sent)
reply_rate(h) == Rate(h.total_replied, h.total_sent)
open_rate(h) == Rate(h.total_opened, h.total_sent)
unsubscribe_rate(h) == Rate(h.total_unsubscribed, h.total_sent)

Rates(h) ==
    [bounce |-> bounce_rate(h), reply |-> reply_rate(h),
     open |-> open_rate(h), unsubscribe |-> unsubscribe_rate(h)]

is_healthy(h, max_bounce_pct, max_unsub_pct) ==
    Le(bounce_rate(h), max_bounce_pct) /\ Le(unsubscribe_rate(h), max_unsub_pct)

\* the dataclass constructor (campaign_id left out)
CampaignHealth(sent, opened, replied, bounced, unsubscribed) ==
    [total_sent |-> sent, total_opened |-> opened, total_replied |-> replied,
     total_bounced |-> bounced, total_unsubscribed |-> unsubscribed]

FetchRetries == 2

\* the decorated fetch_campaign_summary, given what each request does
fetch_wrapped(script) == RunWrapper(script, 0, FetchRetries)
fetch_campaign_summary(script) == fetch_wrapped(script).outcome

\* variant: get_health has no try/except around the fetch
get_health_noCatch(script) ==
    LET o == fetch_campaign_summary(script)
    IN  IF o.exc = "none"
        THEN Returns(CampaignHealth(Get(o.value, "sent", 0),
                                    Get(o.value, "opened", 0),
                                    Get(o.value, "replied", 0),
                                    Get(o.value, "bounced", 0),
                                    Get(o.value, "unsubscribed", 0)))
        ELSE o

\* get_health: a failed fetch gives the all-zero snapshot, a key missing
\* from the summary counts as 0
get_health(script) ==
    LET o == fetch_campaign_summary(script)
    IN  IF o.exc = "none"
        THEN Returns(CampaignHealth(Get(o.value, "sent", 0),
                                    Get(o.value, "opened", 0),
                                    Get(o.value, "replied", 0),
                                    Get(o.value, "bounced", 0),
                                    Get(o.value, "unsubscribed", 0)))
        ELSE IF o.exc \in RequestExceptions
        THEN Returns(CampaignHealth(0, 0, 0, 0, 0))
        ELSE o

\* variant: the three checks form one if/elif chain
Alerts_firstOnly(h, mbr) ==
    IF Gt(bounce_rate(h), mbr) THEN <<"bounce">>
    ELSE IF Gt(unsubscribe_rate(h), Pct(2, 1)) THEN <<"unsubscribe">>
    ELSE IF h.total_sent >= 500 /\ Lt(reply_rate(h), Pct(3, 1))
    THEN <<"low_reply">>
    ELSE <<>>

\* the three checks of check_and_alert, each appending its message
Alerts(h, mbr) ==
    (IF Gt(bounce_rate(h), mbr) THEN <<"bounce">> ELSE <<>>)
    \o (IF Gt(unsubscribe_rate(h), Pct(2, 1)) THEN <<"unsubscribe">>
        ELSE <<>>)
    \o (IF h.total_sent >= 500 /\ Lt(reply_rate(h), Pct(3, 1))
        THEN <<"low_reply">> ELSE <<>>)

\* check_and_alert on the snapshot get_health returned
check_and_alert(h, mbr) == IF h.total_sent = 0 THEN <<>> ELSE Alerts(h, mbr)

\* self.max_spam_rate: 0.1 unless the benchmarks file gives another value
max_spam_rate == Pct(1, 10)

\* self.max_bounce_rate: alert_threshold * 100 of the benchmarks file
\* (0.02, 0.005 or 0.05 here), 2.0 when the file is missing
ThresholdSamples == {Pct(2, 1), Pct(1, 2), Pct(5, 1)}

\* the summaries the analytics endpoint answers with: counters below, at
\* and above 2% and 3% of 100 and 500 sends, counters with no sends, and a
\* summary with keys missing
SummarySamples ==
    { [sent |-> s, opened |-> 50, replied |-> r, bounced |-> b,
       unsubscribed |-> u] :
          s \in {0, 100, 500}, r \in {14, 15}, b \in {2, 3, 10, 11},
          u \in {2, 3, 10, 11} }
    \cup { [sent |-> 1000, bounced |-> 50],
           [sent |-> 1000, replied |-> 50, spam_complaints |-> 5] }

FetchScripts ==
    {<<Returns(d)>> : d \in SummarySamples}
    \cup {<<HTTPError(503), Returns(d)>> : d \in {[sent |-> 1000, bounced |-> 50]}}
    \cup { <<HTTPError(404)>>,
           <<Raises("ConnectionError"), Raises("ConnectionError"),
             Raises("ConnectionError")>> }

\* the snapshots is_healthy is called on
HealthSamples ==
    { CampaignHealth(Get(d, "sent", 0), Get(d, "opened", 0),
                     Get(d, "replied", 0), Get(d, "bounced", 0),
                     Get(d, "unsubscribed", 0)) : d \in SummarySamples }

\* check_and_alert, given what each request of the fetch does; when
\* get_health raises, so does check_and_alert and nothing is returned
CheckAndAlert(script) ==
    LET got == get_health(script)
    IN  /\ m_last' = [op |-> IF got.exc = "none" THEN "check_and_alert"
                             ELSE "check_and_alert raised",
                      max_bounce_pct |-> max_bounce_rate,
                      max_unsub_pct |-> Pct(2, 1),
                      fetch |-> fetch_wrapped(script).outcome,
                      attempts |-> fetch_wrapped(script).calls]
        /\ IF got.exc = "none"
           THEN /\ m_health' = got.value
                /\ m_rates' = Rates(got.value)
                /\ m_out' = check_and_alert(got.value, max_bounce_rate)
           ELSE UNCHANGED <<m_health, m_rates, m_out>>
        /\ UNCHANGED max_bounce_rate
        /\ UNCHANGED <<retryVars, rateVars, suppVars, enrichVars, pipeVars,
                       replyVars, directVars, instantlyVars, urlVars,
                       costVars, workerVars, peerVars, alertVars,
                       costLogVars>>

MonitorCheckAndAlert == \E script \in FetchScripts : CheckAndAlert(script)

IsHealthy(h, max_bounce_pct, max_unsub_pct) ==
    /\ m_last' = [op |-> "is_healthy", max_bounce_pct |-> max_bounce_pct,
                  max_unsub_pct |-> max_unsub_pct, fetch |-> NotCalled,
                  attempts |-> 0]
    /\ m_health' = h
    /\ m_rates' = Rates(h)
    /\ m_out' = is_healthy(h, max_bounce_pct, max_unsub_pct)
    /\ UNCHANGED max_bounce_rate
    /\ UNCHANGED <<retryVars, rateVars, suppVars, enrichVars, pipeVars,
                   replyVars, directVars, instantlyVars, urlVars, costVars,
                   workerVars, peerVars, alertVars, costLogVars>>

\* is_healthy() with its defaults, or with one maximum given
MonitorIsHealthy ==
    \E h \in HealthSamples :
        \E args \in {<<Pct(2, 1), Pct(2, 1)>>, <<Pct(5, 1), Pct(2, 1)>>,
                     <<Pct(2, 1), Pct(1, 2)>>} :
            IsHealthy(h, args[1], args[2])

InitMonitor(thresholds) ==
    /\ max_bounce_rate \in thresholds
    /\ m_last = [op |-> "init", max_bounce_pct |-> Pct(2, 1),
                 max_unsub_pct |-> Pct(2, 1), fetch |-> NotCalled,
                 attempts |-> 0]
    /\ m_health = CampaignHealth(0, 0, 0, 0, 0)
    /\ m_rates = Rates(CampaignHealth(0, 0, 0, 0, 0))
    /\ m_out = <<>>

NextMonitor ==
    \/ MonitorCheckAndAlert
    \/ MonitorIsHealthy

(***************************************************************************)
(* EmailEnricher.enrich called on its own, once or again on the dict it    *)
(* returned (src/src/enrichment/waterfall.py, lines 59-107).               *)
(***************************************************************************)
MaxEnrichCalls == 2     \* calls of enrich on one lead

\* what one call of enrich did: the dict as it is left, the provider
\* queries in order, and the exception that left enrich ("none": returned)
EnrichResult(lead, queries, exc) ==
    [lead |-> lead, queries |-> queries, exc |-> exc]

\* enrich, lines 80-107: Layers 2 and 3; the dict is written at the end
\* only, so an exception leaving enrich leaves the dict as it was
Waterfall(lead, ps, hs) ==
    LET pw == SearchWrapped(ps)
        pr == pw.outcome
        pq == Query("prospeo", lead.website, ps, pw)
        pfound == pr.exc = "none" /\ pr.value # NoEmail
        email1 == IF pfound THEN pr.value ELSE lead.email
        source1 == IF pfound THEN "prospeo" ELSE "scraped"
        hw == SearchWrapped(hs)
        hr == hw.outcome
        hq == Query("hunter", lead.website, hs, hw)
        hfound == hr.exc = "none" /\ hr.value # NoEmail
        email2 == IF hfound THEN hr.value ELSE email1
        source2 == IF hfound THEN "hunter" ELSE source1
    IN  IF pr.exc # "none" /\ ~Caught(pr.exc)
        THEN EnrichResult(lead, <<pq>>, pr.exc)
        ELSE IF ~Layer3Needed(email1)
        THEN EnrichResult([lead EXCEPT !.email = email1,
                                       !.enrichment_source = source1],
                          <<pq>>, "none")
        ELSE IF hr.exc # "none" /\ ~Caught(hr.exc)
        THEN EnrichResult(lead, <<pq, hq>>, hr.exc)
        ELSE EnrichResult([lead EXCEPT !.email = email2,
                                       !.enrichment_source = source2],
                          <<pq, hq>>, "none")

\* variant: the providers are asked even when the lead has no website
enrich_noWebsiteCheck(lead, ps, hs) ==
    IF is_valid_email(lead.email)
    THEN EnrichResult([lead EXCEPT !.enrichment_source = "scraped"],
                      <<>>, "none")
    ELSE Waterfall(lead, ps, hs)

\* variant: no Layer 1, the providers are asked whatever the lead holds
enrich_noLayer1(lead, ps, hs) ==
    IF lead.website = NoEmail
    THEN EnrichResult([lead EXCEPT !.enrichment_source = "none"],
                      <<>>, "none")
    ELSE Waterfall(lead, ps, hs)

\* enrich, lines 64-78: Layer 1 and the website check, then the waterfall
enrich(lead, ps, hs) ==
    IF is_valid_email(lead.email)
    THEN EnrichResult([lead EXCEPT !.enrichment_source = "scraped"],
                      <<>>, "none")
    ELSE IF lead.website = NoEmail
    THEN EnrichResult([lead EXCEPT !.enrichment_source = "none"],
                      <<>>, "none")
    ELSE Waterfall(lead, ps, hs)

\* the provider scripts of a direct call: any first response, then either
\* an address or HTTP 503 on the retries
DirectScripts ==
    { <<a, b, b>> : a \in SearchResponses,
                    b \in {Returns(<<"c","@","b",".","c","o">>),
                           HTTPError(503)} }

\* one call of enrich on the dict the previous call left
EnrichCall ==
    /\ Len(d_log) < MaxEnrichCalls
    /\ \E ps \in DirectScripts, hs \in DirectScripts :
         LET r == enrich(d_hist[Len(d_hist)], ps, hs)
         IN  /\ d_hist' = Append(d_hist, r.lead)
             /\ d_log' = Append(d_log, [queries |-> r.queries,
                                        exc |-> r.exc])
    /\ UNCHANGED <<retryVars, rateVars, suppVars, enrichVars, pipeVars,
                   replyVars, monitorVars, instantlyVars, urlVars, costVars,
                   workerVars, peerVars, alertVars, costLogVars>>

\* the leads enrich is called on: the sample leads, and one with an e-mail
\* that is not valid and no website
DirectLeads == LeadSamples \cup {Lead(<<"a","@">>, NoEmail)}

InitDirect(samples) ==
    /\ d_hist \in {<<l>> : l \in samples}
    /\ d_log = <<>>

NextDirect ==
    \/ EnrichCall

(***************************************************************************)
(* InstantlyClient called on its own                                       *)
(* (src/src/outreach/instantly_client.py).                                 *)
(***************************************************************************)
\* the responses to the successive requests of one add_lead: any first
\* response, then one and the same response to every retry
PlatformScripts ==
    { [i \in 1..(AddLeadRetries + 1) |-> IF i = 1 THEN a ELSE b] :
          a \in PlatformResponses, b \in PlatformResponses }

\* add_lead(lead)
InstantlyAddLead ==
    /\ \E lead \in LeadSamples, script \in PlatformScripts :
         LET r == add_lead(lead, script)
         IN  /\ i_last' = [op |-> "add_lead", arg |-> lead,
                           attempts |-> r.calls]
             /\ i_requests' = r.requests
             /\ i_out' = r.outcome
    /\ UNCHANGED <<retryVars, rateVars, suppVars, enrichVars, pipeVars,
                   replyVars, monitorVars, directVars, urlVars, costVars,
                   workerVars, peerVars, alertVars, costLogVars>>

\* add_leads_batch(leads)
InstantlyAddLeadsBatch ==
    /\ \E ls \in Batches, resp \in PlatformResponses :
         LET r == add_leads_batch(ls, resp)
         IN  /\ i_last' = [op |-> "add_leads_batch", arg |-> ls,
                           attempts |-> 1]
             /\ i_requests' = r.requests
             /\ i_out' = r.outcome
    /\ UNCHANGED <<retryVars, rateVars, suppVars, enrichVars, pipeVars,
                   replyVars, monitorVars, directVars, urlVars, costVars,
                   workerVars, peerVars, alertVars, costLogVars>>

InitInstantly ==
    /\ i_last = [op |-> "none", arg |-> <<>>, attempts |-> 0]
    /\ i_requests = <<>>
    /\ i_out = NotCalled

NextInstantly ==
    \/ InstantlyAddLead
    \/ InstantlyAddLeadsBatch

(***************************************************************************)
(* is_valid_url and sanitize_url (src/src/utils/validators.py).            *)
(* urlparse is computed on the characters of the URL: the scheme before    *)
(* the first ":", the network location between "//" and the next "/", "?"  *)
(* or "#", and the host name inside it (user information and port left     *)
(* out, lower-cased).  Bracketed IPv6 hosts are not among the inputs.      *)
(***************************************************************************)
_PRIVATE_IP_PREFIXES ==
    { <<"1","0",".">>,
      <<"1","7","2",".","1","6",".">>,
      <<"1","7","2",".","1","7",".">>,
      <<"1","7","2",".","1","8",".">>,
      <<"1","7","2",".","1","9",".">>,
      <<"1","7","2",".","2","0",".">>,
      <<"1","7","2",".","2","1",".">>,
      <<"1","7","2",".","2","2",".">>,
      <<"1","7","2",".","2","3",".">>,
      <<"1","7","2",".","2","4",".">>,
      <<"1","7","2",".","2","5",".">>,
      <<"1","7","2",".","2","6",".">>,
      <<"1","7","2",".","2","7",".">>,
      <<"1","7","2",".","2","8",".">>,
      <<"1","7","2",".","2","9",".">>,
      <<"1","7","2",".","3","0",".">>,
      <<"1","7","2",".","3","1",".">>,
      <<"1","9","2",".","1","6","8",".">>,
      <<"1","2","7",".">>,
      <<"0",".">> }

_BLOCKED_HOSTS ==
    { <<"l","o","c","a","l","h","o","s","t">>,
      <<"m","e","t","a","d","a","t","a",".","g","o","o","g","l","e",".","i","n","t","e","r","n","a","l">> }

\* str.startswith(prefix)
startswith(s, prefix) ==
    Len(s) >= Len(prefix) /\ SubSeq(s, 1, Len(prefix)) = prefix

\* the first position of s holding a character of cs; Len(s) + 1 if none
FirstOf(s, cs) ==
    IF \E i \in 1..Len(s) : s[i] \in cs
    THEN CHOOSE i \in 1..Len(s) :
            s[i] \in cs /\ \A k \in 1..(i - 1) : s[k] \notin cs
    ELSE Len(s) + 1

\* the last position of s holding the character c; 0 if none
LastOf(s, c) ==
    IF \E i \in 1..Len(s) : s[i] = c
    THEN CHOOSE i \in 1..Len(s) :
            s[i] = c /\ \A k \in (i + 1)..Len(s) : s[k] # c
    ELSE 0

\* urllib.parse.urlparse(url): the scheme (lower-cased; empty unless the
\* text before the first ":" is a letter followed by letters, digits, "+",
\* "-" or ".") and the network location
urlparse(url) ==
    LET i == FirstOf(url, {":"})
        has_scheme ==
           /\ 1 < i /\ i <= Len(url)
           /\ url[1] \in Letters
           /\ \A k \in 1..(i - 1) :
                 url[k] \in Letters \cup Digits \cup {"+","-","."}
        rest == IF has_scheme THEN SubSeq(url, i + 1, Len(url)) ELSE url
        has_netloc == startswith(rest, <<"/","/">>)
        after == SubSeq(rest, 3, Len(rest))
    IN  [scheme |-> IF has_scheme THEN lower(SubSeq(url, 1, i - 1)) ELSE <<>>,
         netloc |-> IF has_netloc
                    THEN SubSeq(after, 1, FirstOf(after, {"/","?","#"}) - 1)
                    ELSE <<>>]

\* ParseResult.hostname: the network location after the last "@" and before
\* the port, lower-cased (empty stands for None)
hostname(netloc) ==
    LET hostinfo == SubSeq(netloc, LastOf(netloc, "@") + 1, Len(netloc))
    IN  lower(SubSeq(hostinfo, 1, FirstOf(hostinfo, {":"}) - 1))

\* is_valid_url(url, require_https), lines 40-76
is_valid_url(url, require_https) ==
    IF url = <<>> \/ url = PyNone THEN FALSE
    ELSE LET parsed == urlparse(strip(url))
             allowed_schemes ==
                IF require_https THEN {<<"h","t","t","p","s">>}
                ELSE {<<"h","t","t","p">>, <<"h","t","t","p","s">>}
             host == hostname(parsed.netloc)
         IN  IF parsed.scheme \notin allowed_schemes THEN FALSE
             ELSE IF host = <<>> THEN FALSE
             ELSE IF \E prefix \in _PRIVATE_IP_PREFIXES :
                        startswith(host, prefix) THEN FALSE
             ELSE IF lower(host) \in _BLOCKED_HOSTS THEN FALSE
             ELSE IF \A i \in 1..Len(host) : host[i] # "." THEN FALSE
             ELSE TRUE

\* sanitize_url(url), lines 79-86
sanitize_url(url) ==
    IF url = <<>> \/ url = PyNone THEN <<>>
    ELSE LET stripped == strip(url)
             with_scheme ==
                IF \/ startswith(stripped, <<"h","t","t","p",":","/","/">>)
                   \/ startswith(stripped, <<"h","t","t","p","s",":","/","/">>)
                THEN stripped
                ELSE <<"h","t","t","p","s",":","/","/">> \o stripped
         IN  IF is_valid_url(with_scheme, FALSE) THEN with_scheme ELSE <<>>

\* a host to build URLs from, with the kind of target it is
Host(text, kind) == [text |-> text, kind |-> kind]

HostSamples ==
    { Host(<<"1","2","7",".","0",".","0",".","1">>,
           "loopback"),
      Host(<<"1","0",".","0",".","0",".","1">>,
           "private"),
      Host(<<"1","7","2",".","1","6",".","0",".","1">>,
           "private"),
      Host(<<"1","9","2",".","1","6","8",".","1",".","1">>,
           "private"),
      Host(<<"1","6","9",".","2","5","4",".","1","6","9",".","2","5","4">>,
           "link-local"),
      Host(<<"l","o","c","a","l","h","o","s","t">>,
           "internal"),
      Host(<<"m","e","t","a","d","a","t","a",".","g","o","o","g","l","e",".","i","n","t","e","r","n","a","l">>,
           "internal"),
      Host(<<"1","2","7",".","0",".","0",".","1",":","8","0","8","0">>,
           "loopback"),
      Host(<<"e","x","a","m","p","l","e",".","c","o","m">>,
           "public"),
      Host(<<"s","u","b",".","d","o","m","a","i","n",".","e","x","a","m","p","l","e",".","c","o","m">>,
           "public") }

SchemeSamples ==
    { <<"h","t","t","p">>, <<"h","t","t","p","s">>, <<"f","t","p">> }

PathSamples ==
    { <<>>, <<"/">>, <<"/","l","a","t","e","s","t","/","m","e","t","a","-","d","a","t","a">> }

\* is_valid_url(scheme://host/path, require_https)
IsValidUrl ==
    /\ \E scheme \in SchemeSamples, host \in HostSamples,
          path \in PathSamples, require_https \in BOOLEAN :
         LET url == scheme \o <<":","/","/">> \o host.text \o path
         IN  /\ u_last' = [op |-> "is_valid_url", url |-> url,
                           scheme |-> scheme, host |-> host,
                           require_https |-> require_https]
             /\ u_out' = is_valid_url(url, require_https)
    /\ UNCHANGED <<retryVars, rateVars, suppVars, enrichVars, pipeVars,
                   replyVars, monitorVars, directVars, instantlyVars,
                   costVars, workerVars, peerVars, alertVars, costLogVars>>

\* sanitize_url(host/path) and sanitize_url(scheme://host/path)
SanitizeUrl ==
    /\ \E scheme \in SchemeSamples \cup {<<>>}, host \in HostSamples,
          path \in PathSamples :
         LET url == IF scheme = <<>> THEN host.text \o path
                    ELSE scheme \o <<":","/","/">> \o host.text \o path
         IN  /\ u_last' = [op |-> "sanitize_url", url |-> url,
                           scheme |-> scheme, host |-> host,
                           require_https |-> FALSE]
             /\ u_out' = sanitize_url(url)
    /\ UNCHANGED <<retryVars, rateVars, suppVars, enrichVars, pipeVars,
                   replyVars, monitorVars, directVars, instantlyVars,
                   costVars, workerVars, peerVars, alertVars, costLogVars>>

InitUrl ==
    /\ u_last = [op |-> "none", url |-> <<>>, scheme |-> <<>>,
                 host |-> Host(<<>>, "none"), require_https |-> FALSE]
    /\ u_out = FALSE

NextUrl ==
    \/ IsValidUrl
    \/ SanitizeUrl

(***************************************************************************)
(* CostTracker (src/src/monitoring/cost_tracker.py).  Amounts are in       *)
(* 1/10000 USD, the unit in which every entry of DEFAULT_COSTS is whole.   *)
(***************************************************************************)
MaxLogCalls == 3        \* log_call operations in one session

\* DEFAULT_COSTS, for the services of the model
DEFAULT_COSTS ==
    [s \in {"prospeo_search", "claude_sonnet", "instantly_add"} |->
        CASE s = "prospeo_search" -> 100
          [] s = "claude_sonnet" -> 30
          [] s = "instantly_add" -> 0]

\* self.costs.get(service, 0.0)
unit_cost(service) ==
    IF service \in DOMAIN DEFAULT_COSTS THEN DEFAULT_COSTS[service] ELSE 0

\* the services log_call is given; the last one has no entry in costs
ServiceSamples ==
    {"prospeo_search", "claude_sonnet", "instantly_add", "custom_service"}

\* the counts log_call is given: count is an int that is not checked
CountSamples == {-1, 0, 1, 5}

\* sum(d.values())
RECURSIVE SumValues(_, _)
SumValues(d, keys) ==
    IF keys = {} THEN 0
    ELSE LET k == CHOOSE x \in keys : TRUE
         IN  d[k] + SumValues(d, keys \ {k})

\* the properties total_calls and total_spend
total_calls == SumValues(t_calls, DOMAIN t_calls)
total_spend == SumValues(t_spend, DOMAIN t_spend)

\* log_call(service, count), lines 38-42
LogCall ==
    /\ Len(t_log) < MaxLogCalls
    /\ \E service \in ServiceSamples, count \in CountSamples :
         /\ t_calls' = [t_calls EXCEPT ![service] = @ + count]
         /\ t_spend' = [t_spend EXCEPT
                           ![service] = @ + unit_cost(service) * count]
         /\ t_log' = Append(t_log, [service |-> service, count |-> count])
    /\ UNCHANGED <<retryVars, rateVars, suppVars, enrichVars, pipeVars,
                   replyVars, monitorVars, directVars, instantlyVars, urlVars,
                   workerVars, peerVars, alertVars, costLogVars>>

\* __init__, lines 32-36: the defaultdicts are empty, every service reads 0
InitCost ==
    /\ t_calls = [s \in ServiceSamples |-> 0]
    /\ t_spend = [s \in ServiceSamples |-> 0]
    /\ t_log = <<>>

NextCost ==
    \/ LogCall

(***************************************************************************)
(* rate_limit.wrapper run by two threads that share the last_called cell   *)
(* of an operation (src/src/utils/rate_limiter.py, lines 20-26).  The      *)
(* wrapper takes no lock: a thread may be scheduled out between reading    *)
(* last_called[0], sleeping and writing last_called[0].                    *)
(***************************************************************************)
Workers == {1, 2}

NoInvocation == [op |-> "none", arrive |-> 0, sleep |-> 0]

\* the invocations begun so far, finished or not
Begun == Len(rl_log) + Cardinality({w \in Workers : w_pc[w] # "idle"})

\* lines 20-22: elapsed is computed from the shared timestamp, and the
\* thread goes to sleep if it is early
WorkerRead(w) ==
    /\ w_pc[w] = "idle"
    /\ Begun < MaxInvocations
    /\ \E op \in Ops :
         LET d == SleepFor(now - last_called[op], min_interval[op])
         IN  /\ w_inv' = [w_inv EXCEPT ![w] = [op |-> op, arrive |-> now,
                                               sleep |-> d]]
             /\ w_pc' = [w_pc EXCEPT ![w] = IF d > 0 THEN "sleeping"
                                            ELSE "stamp"]
    /\ UNCHANGED <<now, last_called, rl_log>>
    /\ UNCHANGED <<retryVars, suppVars, enrichVars, pipeVars, replyVars,
                   monitorVars, directVars, instantlyVars, urlVars, costVars,
                   peerVars, alertVars, costLogVars>>

\* line 22: time.sleep returns, not before the time asked for
WorkerWake(w) ==
    /\ w_pc[w] = "sleeping"
    /\ now >= w_inv[w].arrive + w_inv[w].sleep
    /\ w_pc' = [w_pc EXCEPT ![w] = "stamp"]
    /\ UNCHANGED <<now, last_called, rl_log, w_inv>>
    /\ UNCHANGED <<retryVars, suppVars, enrichVars, pipeVars, replyVars,
                   monitorVars, directVars, instantlyVars, urlVars, costVars,
                   peerVars, alertVars, costLogVars>>

\* lines 23-24: the timestamp is written and func starts
WorkerStampAndCall(w) ==
    /\ w_pc[w] = "stamp"
    /\ last_called' = Stamp(last_called, w_inv[w].op, now)
    /\ rl_log' = Append(rl_log, [op |-> w_inv[w].op,
                                 arrive |-> w_inv[w].arrive,
                                 sleep |-> w_inv[w].sleep, start |-> now])
    /\ w_pc' = [w_pc EXCEPT ![w] = "idle"]
    /\ w_inv' = [w_inv EXCEPT ![w] = NoInvocation]
    /\ UNCHANGED now
    /\ UNCHANGED <<retryVars, suppVars, enrichVars, pipeVars, replyVars,
                   monitorVars, directVars, instantlyVars, urlVars, costVars,
                   peerVars, alertVars, costLogVars>>

\* the clock advances while the threads are idle, asleep or scheduled out
ClockTicks ==
    /\ now < MaxTime
    /\ now' = now + 1
    /\ UNCHANGED <<last_called, rl_log, w_pc, w_inv>>
    /\ UNCHANGED <<retryVars, suppVars, enrichVars, pipeVars, replyVars,
                   monitorVars, directVars, instantlyVars, urlVars, costVars,
                   peerVars, alertVars, costLogVars>>

InitWorkers ==
    /\ w_pc = [w \in Workers |-> "idle"]
    /\ w_inv = [w \in Workers |-> NoInvocation]

NextWorkers ==
    \/ \E w \in Workers : WorkerRead(w)
    \/ \E w \in Workers : WorkerWake(w)
    \/ \E w \in Workers : WorkerStampAndCall(w)
    \/ ClockTicks

(***************************************************************************)
(* Two SuppressionManager instances (two workers or processes) opened on   *)
(* the same suppression file (src/src/compliance/suppression.py).  Each    *)
(* instance loads the file once, in __init__, and from then on answers     *)
(* from and rewrites the file from its own _cache.                         *)
(***************************************************************************)
Managers == {1, 2}

MaxPeerAdds == 3        \* add operations followed in one behaviour

\* add(email, reason, source) on instance m, lines 67-85: nothing is done
\* for a key of its own cache; otherwise the entry is stored and _save
\* rewrites the shared file from the cache of this instance
PeerAdd(m, email, reason, source) ==
    /\ Len(sm_adds) < MaxPeerAdds
    /\ LET tbl == AddEntry(sm_cache[m], email, reason, source, Len(sm_adds))
       IN  /\ sm_cache' = [sm_cache EXCEPT ![m] = tbl]
           /\ \E ok \in BOOLEAN :
                /\ file' = IF tbl = sm_cache[m] THEN file ELSE Saved(tbl, ok)
                /\ sm_adds' = Append(sm_adds,
                                     [manager |-> m, key |-> Key(email),
                                      stored |-> tbl # sm_cache[m],
                                      saved |-> ok])
    /\ UNCHANGED <<cache, s_time, s_last, s_arg, s_out>>
    /\ UNCHANGED <<retryVars, rateVars, enrichVars, pipeVars, replyVars,
                   monitorVars, directVars, instantlyVars, urlVars, costVars,
                   workerVars, alertVars, costLogVars>>

PeerSuppressionAdd ==
    \E m \in Managers, email \in SuppEmailSamples, reason \in ReasonSamples,
       source \in SourceSamples : PeerAdd(m, email, reason, source)

\* __init__, lines 31-36: both instances have loaded the file
InitPeers ==
    /\ sm_cache = [m \in Managers |-> Loaded(file)]
    /\ sm_adds = <<>>

NextPeers ==
    \/ PeerSuppressionAdd

(***************************************************************************)
(* SuppressionManager on a file it did not write itself: the table in      *)
(* data/suppression_list.json is "synced from Google Sheets"               *)
(* (suppression.py lines 1-6), so _load meets keys in any spelling.        *)
(***************************************************************************)
\* a table file as the external sync leaves it: the address as typed
SyncedTables ==
    { EmptyTable,
      [k \in {<<" ","A","@","B",".","C","O">>} |->
          [reason |-> "unsubscribe", source |-> "webhook", added_at |-> 0]] }

NextSuppLoad ==
    \/ SuppressionLoad
    \/ SuppressionIsSuppressed
    \/ SuppressionAdd

(***************************************************************************)
(* CampaignMonitor.send_slack_alerts                                       *)
(* (src/src/monitoring/campaign_monitor.py, lines 152-164), called with    *)
(* the alert lists check_and_alert returns.                                *)
(***************************************************************************)
MaxAlertCalls == 2      \* calls of send_slack_alerts in one behaviour

\* "\n".join(f":warning: {a}" for a in alerts), kept as a list of lines
SlackText(alerts) == [i \in 1..Len(alerts) |-> <<":warning: ", alerts[i]>>]

\* variant: the sink is posted to whether or not there are alerts
send_slack_alerts_always(alerts, url, post) ==
    IF url = ""
    THEN [outcome |-> None, posts |-> <<>>]
    ELSE [outcome |-> IF post.exc = "none" \/ post.exc \in RequestExceptions
                      THEN None ELSE post,
          posts |-> <<[url |-> url, text |-> SlackText(alerts)]>>]

\* variant: no try/except around requests.post
send_slack_alerts_noCatch(alerts, url, post) ==
    IF alerts = <<>> \/ url = ""
    THEN [outcome |-> None, posts |-> <<>>]
    ELSE [outcome |-> IF post.exc = "none" THEN None ELSE post,
          posts |-> <<[url |-> url, text |-> SlackText(alerts)]>>]

\* send_slack_alerts: what it returns or raises and the payloads it posted,
\* given what requests.post does
send_slack_alerts(alerts, url, post) ==
    IF alerts = <<>> \/ url = ""
    THEN [outcome |-> None, posts |-> <<>>]
    ELSE [outcome |-> IF post.exc = "none" \/ post.exc \in RequestExceptions
                      THEN None ELSE post,
          posts |-> <<[url |-> url, text |-> SlackText(alerts)]>>]

\* the alert lists check_and_alert returns on the sampled snapshots
AlertLists == {check_and_alert(h, Pct(2, 1)) : h \in HealthSamples}

SendSlackAlerts(alerts, post) ==
    LET r == send_slack_alerts(alerts, slack_webhook_url, post)
    IN  /\ k_calls < MaxAlertCalls
        /\ k_calls' = k_calls + 1
        /\ k_last' = [op |-> "send_slack_alerts", alerts |-> alerts,
                      post |-> IF r.posts = <<>> THEN NotCalled ELSE post]
        /\ k_posts' = k_posts \o r.posts
        /\ k_out' = r.outcome
        /\ UNCHANGED <<retryVars, rateVars, suppVars, enrichVars, pipeVars,
                       replyVars, monitorVars, directVars, instantlyVars,
                       urlVars, costVars, workerVars, peerVars, costLogVars>>

MonitorSendSlackAlerts ==
    \E alerts \in AlertLists : \E post \in PostResponses :
        SendSlackAlerts(alerts, post)

InitAlerts ==
    /\ k_calls = 0
    /\ k_last = [op |-> "init", alerts |-> <<>>, post |-> NotCalled]
    /\ k_posts = <<>>
    /\ k_out = None

NextAlerts ==
    \/ MonitorSendSlackAlerts

(***************************************************************************)
(* CostTracker.save (src/src/monitoring/cost_tracker.py, lines 77-98) and  *)
(* the log file data/cost_log.json.  A file is "missing", a JSON "list" of *)
(* summaries, "truncated" (the text of such a list cut short, as a save    *)
(* interrupted between open(.., "w") and the end of json.dump leaves it:   *)
(* json.load raises JSONDecodeError) or an "object" (JSON that is not a    *)
(* list).  entries are the summaries the text of the file holds in full.   *)
(***************************************************************************)
MaxSaves == 2           \* calls of save in one behaviour

LogFile(kind, entries) == [kind |-> kind, entries |-> entries]

MissingLog == LogFile("missing", <<>>)

\* summary(), lines 54-68, without session_duration_s; by_service has the
\* keys of self._calls, the services log_call was given
summary ==
    [total_api_calls |-> total_calls,
     estimated_total_cost_usd |-> total_spend,
     by_service |->
        [s \in {t_log[i].service : i \in 1..Len(t_log)} |->
            [calls |-> t_calls[s], estimated_cost_usd |-> t_spend[s]]]]

\* entry = {"timestamp": ..., **self.summary()}
Entry(t) == [timestamp |-> t, summary |-> summary]

\* lines 86-92: what existing is before the append; read_ok is FALSE when
\* open or read raises OSError
Existing(f, read_ok) ==
    IF f.kind = "missing" THEN Returns(<<>>)
    ELSE IF ~read_ok \/ f.kind = "truncated" THEN Returns(<<>>)
    ELSE IF f.kind = "object" THEN Raises("AttributeError")
    ELSE Returns(f.entries)

\* save: the file as it is left and the exception that left save ("none":
\* it returned); write_ok is FALSE when open(.., "w") raises OSError
save(f, entry, read_ok, write_ok) ==
    LET existing == Existing(f, read_ok)
    IN  IF existing.exc # "none" THEN [file |-> f, exc |-> existing.exc]
        ELSE IF ~write_ok THEN [file |-> f, exc |-> "OSError"]
        ELSE [file |-> LogFile("list", Append(existing.value, entry)),
              exc |-> "none"]

\* a summary an earlier session persisted
OldSummary ==
    [timestamp |-> 0,
     summary |-> [total_api_calls |-> 5, estimated_total_cost_usd |-> 500,
                  by_service |->
                     [s \in {"prospeo_search"} |->
                         [calls |-> 5, estimated_cost_usd |-> 500]]]]

\* the states save finds the log file in
LogFileSamples ==
    { MissingLog, LogFile("list", <<>>), LogFile("list", <<OldSummary>>),
      LogFile("truncated", <<OldSummary>>), LogFile("object", <<>>) }

CostSave ==
    /\ t_saved.n < MaxSaves
    /\ \E read_ok \in BOOLEAN, write_ok \in BOOLEAN :
         LET r == save(t_file, Entry(t_saved.n + 1), read_ok, write_ok)
         IN  /\ t_file' = r.file
             /\ t_saved' = [n |-> t_saved.n + 1, entry |-> Entry(t_saved.n + 1),
                            read_ok |-> read_ok, write_ok |-> write_ok,
                            exc |-> r.exc]
    /\ UNCHANGED <<retryVars, rateVars, suppVars, enrichVars, pipeVars,
                   replyVars, monitorVars, directVars, instantlyVars, urlVars,
                   costVars, workerVars, peerVars, alertVars>>

InitCostLog(files) ==
    /\ t_file \in files
    /\ t_saved = [n |-> 0, entry |-> OldSummary, read_ok |-> TRUE,
                  write_ok |-> TRUE, exc |-> "none"]

\* the tracker after __init__ and after one log_call(service, count)
InitCostSession ==
    \/ InitCost
    \/ \E service \in ServiceSamples, count \in {1, 5} :
         /\ t_calls = [s \in ServiceSamples |->
                          IF s = service THEN count ELSE 0]
         /\ t_spend = [s \in ServiceSamples |->
                          IF s = service THEN unit_cost(service) * count
                          ELSE 0]
         /\ t_log = <<[service |-> service, count |-> count]>>

NextCostLog ==
    \/ CostSave

(***************************************************************************)
(* Specifications.                                                         *)
(***************************************************************************)
InitSpecRetry ==
    /\ InitRetry(0..MaxRetriesBound) /\ InitRate /\ InitSupp({EmptyTable})
    /\ InitEnrich({<<>>}, "idle") /\ InitPipeIdle
    /\ InitReply({""}) /\ InitMonitor({Pct(2, 1)})
    /\ InitDirect({Lead(NoEmail, NoEmail)})
    /\ InitInstantly
    /\ InitUrl
    /\ InitCost
    /\ InitWorkers
    /\ InitPeers
    /\ InitAlerts
    /\ InitCostLog({MissingLog})

SpecRetry == InitSpecRetry /\ [][NextRetry]_vars

InitSpecRate ==
    /\ InitRetry({0}) /\ InitRate /\ InitSupp({EmptyTable})
    /\ InitEnrich({<<>>}, "idle") /\ InitPipeIdle
    /\ InitReply({""}) /\ InitMonitor({Pct(2, 1)})
    /\ InitDirect({Lead(NoEmail, NoEmail)})
    /\ InitInstantly
    /\ InitUrl
    /\ InitCost
    /\ InitWorkers
    /\ InitPeers
    /\ InitAlerts
    /\ InitCostLog({MissingLog})

SpecRate == InitSpecRate /\ [][NextRate]_vars

InitSpecEnrich ==
    /\ InitRetry({0}) /\ InitRate /\ InitSupp({EmptyTable})
    /\ InitEnrich(Batches, "next") /\ InitPipeIdle
    /\ InitReply({""}) /\ InitMonitor({Pct(2, 1)})
    /\ InitDirect({Lead(NoEmail, NoEmail)})
    /\ InitInstantly
    /\ InitUrl
    /\ InitCost
    /\ InitWorkers
    /\ InitPeers
    /\ InitAlerts
    /\ InitCostLog({MissingLog})

SpecEnrich == InitSpecEnrich /\ [][NextEnrich]_vars

InitSpecPipeline ==
    /\ InitRetry({0}) /\ InitRate /\ InitSupp(PersistedTables)
    /\ InitEnrich({<<>>}, "idle") /\ InitPipe("stage1", BOOLEAN)
    /\ InitReply({""}) /\ InitMonitor({Pct(2, 1)})
    /\ InitDirect({Lead(NoEmail, NoEmail)})
    /\ InitInstantly
    /\ InitUrl
    /\ InitCost
    /\ InitWorkers
    /\ InitPeers
    /\ InitAlerts
    /\ InitCostLog({MissingLog})

SpecPipeline == InitSpecPipeline /\ [][NextPipeline]_vars

InitSpecSupp ==
    /\ InitRetry({0}) /\ InitRate /\ InitSupp({EmptyTable})
    /\ InitEnrich({<<>>}, "idle") /\ InitPipeIdle
    /\ InitReply({""}) /\ InitMonitor({Pct(2, 1)})
    /\ InitDirect({Lead(NoEmail, NoEmail)})
    /\ InitInstantly
    /\ InitUrl
    /\ InitCost
    /\ InitWorkers
    /\ InitPeers
    /\ InitAlerts
    /\ InitCostLog({MissingLog})

SpecSupp == InitSpecSupp /\ [][NextSupp]_vars

InitSpecSuppQuery ==
    /\ InitRetry({0}) /\ InitRate /\ InitSupp({EmptyTable})
    /\ InitEnrich({<<>>}, "idle") /\ InitPipeIdle
    /\ InitReply({""}) /\ InitMonitor({Pct(2, 1)})
    /\ InitDirect({Lead(NoEmail, NoEmail)})
    /\ InitInstantly
    /\ InitUrl
    /\ InitCost
    /\ InitWorkers
    /\ InitPeers
    /\ InitAlerts
    /\ InitCostLog({MissingLog})

SpecSuppQuery == InitSpecSuppQuery /\ [][NextSuppQuery]_vars

InitSpecReply ==
    /\ InitRetry({0}) /\ InitRate /\ InitSupp({EmptyTable})
    /\ InitEnrich({<<>>}, "idle") /\ InitPipeIdle
    /\ InitReply({"", "https://hooks.slack.com/services/T"})
    /\ InitMonitor({Pct(2, 1)})
    /\ InitDirect({Lead(NoEmail, NoEmail)})
    /\ InitInstantly
    /\ InitUrl
    /\ InitCost
    /\ InitWorkers
    /\ InitPeers
    /\ InitAlerts
    /\ InitCostLog({MissingLog})

SpecReply == InitSpecReply /\ [][NextReply]_vars

InitSpecMonitor ==
    /\ InitRetry({0}) /\ InitRate /\ InitSupp({EmptyTable})
    /\ InitEnrich({<<>>}, "idle") /\ InitPipeIdle
    /\ InitReply({""}) /\ InitMonitor(ThresholdSamples)
    /\ InitDirect({Lead(NoEmail, NoEmail)})
    /\ InitInstantly
    /\ InitUrl
    /\ InitCost
    /\ InitWorkers
    /\ InitPeers
    /\ InitAlerts
    /\ InitCostLog({MissingLog})

SpecMonitor == InitSpecMonitor /\ [][NextMonitor]_vars

InitSpecDirect ==
    /\ InitRetry({0}) /\ InitRate /\ InitSupp({EmptyTable})
    /\ InitEnrich({<<>>}, "idle") /\ InitPipeIdle
    /\ InitReply({""}) /\ InitMonitor({Pct(2, 1)})
    /\ InitDirect(DirectLeads)
    /\ InitInstantly
    /\ InitUrl
    /\ InitCost
    /\ InitWorkers
    /\ InitPeers
    /\ InitAlerts
    /\ InitCostLog({MissingLog})

SpecDirect == InitSpecDirect /\ [][NextDirect]_vars

InitSpecInstantly ==
    /\ InitRetry({0}) /\ InitRate /\ InitSupp({EmptyTable})
    /\ InitEnrich({<<>>}, "idle") /\ InitPipeIdle
    /\ InitReply({""}) /\ InitMonitor({Pct(2, 1)})
    /\ InitDirect({Lead(NoEmail, NoEmail)})
    /\ InitInstantly
    /\ InitUrl
    /\ InitCost
    /\ InitWorkers
    /\ InitPeers
    /\ InitAlerts
    /\ InitCostLog({MissingLog})

SpecInstantly == InitSpecInstantly /\ [][NextInstantly]_vars

InitSpecUrl ==
    /\ InitRetry({0}) /\ InitRate /\ InitSupp({EmptyTable})
    /\ InitEnrich({<<>>}, "idle") /\ InitPipeIdle
    /\ InitReply({""}) /\ InitMonitor({Pct(2, 1)})
    /\ InitDirect({Lead(NoEmail, NoEmail)})
    /\ InitInstantly
    /\ InitUrl
    /\ InitCost
    /\ InitWorkers
    /\ InitPeers
    /\ InitAlerts
    /\ InitCostLog({MissingLog})

SpecUrl == InitSpecUrl /\ [][NextUrl]_vars

InitSpecCost ==
    /\ InitRetry({0}) /\ InitRate /\ InitSupp({EmptyTable})
    /\ InitEnrich({<<>>}, "idle") /\ InitPipeIdle
    /\ InitReply({""}) /\ InitMonitor({Pct(2, 1)})
    /\ InitDirect({Lead(NoEmail, NoEmail)})
    /\ InitInstantly
    /\ InitUrl
    /\ InitCost
    /\ InitWorkers
    /\ InitPeers
    /\ InitAlerts
    /\ InitCostLog({MissingLog})

SpecCost == InitSpecCost /\ [][NextCost]_vars

InitSpecWorkers ==
    /\ InitRetry({0}) /\ InitRate /\ InitSupp({EmptyTable})
    /\ InitEnrich({<<>>}, "idle") /\ InitPipeIdle
    /\ InitReply({""}) /\ InitMonitor({Pct(2, 1)})
    /\ InitDirect({Lead(NoEmail, NoEmail)})
    /\ InitInstantly
    /\ InitUrl
    /\ InitCost
    /\ InitWorkers
    /\ InitPeers
    /\ InitAlerts
    /\ InitCostLog({MissingLog})

SpecWorkers == InitSpecWorkers /\ [][NextWorkers]_vars

InitSpecPeers ==
    /\ InitRetry({0}) /\ InitRate /\ InitSupp({EmptyTable})
    /\ InitEnrich({<<>>}, "idle") /\ InitPipeIdle
    /\ InitReply({""}) /\ InitMonitor({Pct(2, 1)})
    /\ InitDirect({Lead(NoEmail, NoEmail)})
    /\ InitInstantly
    /\ InitUrl
    /\ InitCost
    /\ InitWorkers
    /\ InitPeers
    /\ InitAlerts
    /\ InitCostLog({MissingLog})

SpecPeers == InitSpecPeers /\ [][NextPeers]_vars

InitSpecSuppLoad ==
    /\ InitRetry({0}) /\ InitRate /\ InitSupp(SyncedTables)
    /\ InitEnrich({<<>>}, "idle") /\ InitPipeIdle
    /\ InitReply({""}) /\ InitMonitor({Pct(2, 1)})
    /\ InitDirect({Lead(NoEmail, NoEmail)})
    /\ InitInstantly
    /\ InitUrl
    /\ InitCost
    /\ InitWorkers
    /\ InitPeers
    /\ InitAlerts
    /\ InitCostLog({MissingLog})

SpecSuppLoad == InitSpecSuppLoad /\ [][NextSuppLoad]_vars

InitSpecAlerts ==
    /\ InitRetry({0}) /\ InitRate /\ InitSupp({EmptyTable})
    /\ InitEnrich({<<>>}, "idle") /\ InitPipeIdle
    /\ InitReply({"", "https://hooks.slack.com/services/T"})
    /\ InitMonitor({Pct(2, 1)})
    /\ InitDirect({Lead(NoEmail, NoEmail)})
    /\ InitInstantly
    /\ InitUrl
    /\ InitCost
    /\ InitWorkers
    /\ InitPeers
    /\ InitAlerts
    /\ InitCostLog({MissingLog})

SpecAlerts == InitSpecAlerts /\ [][NextAlerts]_vars

InitSpecCostLog ==
    /\ InitRetry({0}) /\ InitRate /\ InitSupp({EmptyTable})
    /\ InitEnrich({<<>>}, "idle") /\ InitPipeIdle
    /\ InitReply({""}) /\ InitMonitor({Pct(2, 1)})
    /\ InitDirect({Lead(NoEmail, NoEmail)})
    /\ InitInstantly
    /\ InitUrl
    /\ InitCostSession
    /\ InitWorkers
    /\ InitPeers
    /\ InitAlerts
    /\ InitCostLog(LogFileSamples)

SpecCostLog == InitSpecCostLog /\ [][NextCostLog]_vars

(***************************************************************************)
(* Retry policy: properties.                                               *)
(***************************************************************************)
\* the failures the retry policy names as transient
TransientFailure(o) ==
    \/ o.exc = "HTTPError" /\ o.value \in {429, 500, 502, 503, 504}
    \/ o.exc \in {"ConnectionError", "Timeout", "ChunkedEncodingError"}

\* the failures the retry policy names as permanent: another HTTP status, or
\* an exception that is no network (requests) exception
PermanentFailure(o) ==
    \/ o.exc = "HTTPError" /\ o.value \notin {429, 500, 502, 503, 504}
    \/ o.exc # "none" /\ o.exc \notin RequestExceptions

AllTransient(h) == \A i \in 1..Len(h) : TransientFailure(h[i])

Front(h) == SubSeq(h, 1, Len(h) - 1)

\* C6: after k <= max_retries transient failures (in any mix) the wrapper is
\* still going to call func again; when func then succeeds the wrapper returns
\* that result unchanged after exactly k+1 calls; func is never called more
\* than max_retries + 1 times in one invocation.
C6_RetryThenSuccess ==
    /\ calls <= max_retries + 1
    /\ (AllTransient(history) /\ Len(history) <= max_retries)
          => (r_pc = "loop" /\ calls = Len(history))
    /\ (/\ Len(history) >= 1
        /\ AllTransient(Front(history))
        /\ history[Len(history)].exc = "none")
          => /\ r_pc = "returned"
             /\ r_result = history[Len(history)]
             /\ calls = Len(history)

\* two transient failures of different kinds, then success on the third call
C6_Witness ==
    /\ r_pc = "returned"
    /\ calls = 3
    /\ Len(history) = 3
    /\ history[1] = HTTPError(503)
    /\ history[2] = Raises("Timeout")
    /\ r_result = Returns("r2")

\* C7: a failure with an HTTP status outside {429,500,502,503,504}, or with a
\* non-network exception, reaches the caller at once, whatever the attempt
\* number: func was called once more, and there was no retry and no sleep for
\* that failure (one sleep per earlier failure only).
C7_PermanentPropagates ==
    (Len(history) >= 1 /\ PermanentFailure(history[Len(history)]))
       => /\ r_pc = "raised"
          /\ r_result = history[Len(history)]
          /\ calls = Len(history)
          /\ Len(sleeps) = Len(history) - 1

\* a 404 on the second attempt, after one retried 503
C7_Witness ==
    /\ r_pc = "raised"
    /\ attempt = 1
    /\ history = <<HTTPError(503), HTTPError(404)>>
    /\ sleeps = <<BackoffDelay(0)>>

\* C8: when func fails transiently on every attempt, the wrapper makes exactly
\* max_retries + 1 calls, sleeps only between attempts (max_retries sleeps,
\* none after the final failure) and raises the failure of the last attempt.
C8_ExhaustedRaisesLast ==
    /\ (AllTransient(history) /\ Len(history) = max_retries + 1)
          => /\ r_pc = "raised"
             /\ calls = max_retries + 1
             /\ Len(sleeps) = max_retries
             /\ r_result = history[max_retries + 1]
    /\ (AllTransient(history) /\ r_pc = "raised")
          => calls = max_retries + 1

\* three transient failures with max_retries = 2, the last one distinct
C8_Witness ==
    /\ max_retries = 2
    /\ r_pc = "raised"
    /\ history = <<Raises("ConnectionError"), HTTPError(500), HTTPError(429)>>
    /\ r_result = HTTPError(429)

(***************************************************************************)
(* Rate limit: properties.                                                 *)
(***************************************************************************)
\* the invocations of the same operation that precede the j-th invocation
EarlierSameOp(j) == {i \in 1..(j - 1) : rl_log[i].op = rl_log[j].op}

LatestOf(S) == CHOOSE i \in S : \A k \in S : k <= i

\* C9: for one worker, (a) the first invocation of an operation is not
\* delayed; (b) an invocation arriving early sleeps for exactly the time
\* remaining since the previous start of the SAME operation and one arriving
\* late does not sleep, so invocations of another operation never delay it;
\* (c) two successive starts of an operation are at least min_interval apart;
\* (d) the timestamp of an operation is the start of its own latest
\* invocation (0 before the first one), whatever other operations did.
C9_RateLimitPerOperation ==
    /\ \A j \in 1..Len(rl_log) :
          LET e == rl_log[j]
          IN  IF EarlierSameOp(j) = {}
              THEN e.sleep = 0 /\ e.start = e.arrive
              ELSE LET p == rl_log[LatestOf(EarlierSameOp(j))]
                       gap == e.arrive - p.start
                   IN  /\ e.start - p.start >= min_interval[e.op]
                       /\ e.sleep = IF gap < min_interval[e.op]
                                    THEN min_interval[e.op] - gap ELSE 0
                       /\ e.start >= e.arrive + e.sleep
                       /\ e.sleep = 0 => e.start = e.arrive
    /\ \A op \in Ops :
          LET mine == {i \in 1..Len(rl_log) : rl_log[i].op = op}
          IN  last_called[op] = IF mine = {} THEN 0
                                ELSE rl_log[LatestOf(mine)].start

\* verify_email, then the first add_lead right after it (not delayed), then
\* verify_email again too early, which sleeps
C9_Witness ==
    /\ Len(rl_log) = 3
    /\ rl_log[1].op = "verify_email"
    /\ rl_log[2].op = "add_lead" /\ rl_log[2].sleep = 0
    /\ rl_log[2].arrive = rl_log[1].start
    /\ rl_log[3].op = "verify_email" /\ rl_log[3].sleep > 0

(***************************************************************************)
(* Suppression gate: properties.                                           *)
(***************************************************************************)
\* the normalized form of an address: trimmed and lower-cased
Normalized(e) == lower(strip(e))

\* C10: the table never holds two entries for one normalized e-mail, and add
\* is first-write-wins: an add of an address whose normalized form has an
\* entry changes nothing (reason, source and added_at stay those of the first
\* add), an add of a new address creates exactly its entry and leaves the
\* other entries alone.
C10_AddFirstWriteWins ==
    /\ [](\A k1 \in DOMAIN cache : \A k2 \in DOMAIN cache :
             Normalized(k1) = Normalized(k2) => k1 = k2)
    /\ [][(s_last'.op = "add" /\ s_time' # s_time) =>
            LET x == Normalized(s_last'.email)
            IN  IF \E k \in DOMAIN cache : Normalized(k) = x
                THEN cache' = cache
                ELSE /\ DOMAIN cache' = DOMAIN cache \cup {x}
                     /\ cache'[x] = [reason |-> s_last'.reason,
                                     source |-> s_last'.source,
                                     added_at |-> s_last'.at]
                     /\ \A k \in DOMAIN cache : cache'[k] = cache[k]]_vars

\* a second add of the same address (in another spelling) with another
\* reason and source has been made, and the entry is still the first one
C10_Witness ==
    /\ s_last.op = "add"
    /\ s_last.email = <<" ","A","@","B",".","C","O">>
    /\ Cardinality(DOMAIN cache) = 1
    /\ <<"a","@","b",".","c","o">> \in DOMAIN cache
    /\ cache[<<"a","@","b",".","c","o">>].reason # s_last.reason
    /\ cache[<<"a","@","b",".","c","o">>].source # s_last.source
    /\ cache[<<"a","@","b",".","c","o">>].added_at < s_last.at

\* the e-mail of a lead, "" when the lead has none
LeadEmail(lead) == IF "email" \in DOMAIN lead THEN lead.email ELSE <<>>

\* the subsequence of seq at the positions whose flag is TRUE
RECURSIVE Keep(_, _)
Keep(seq, flags) ==
    IF seq = <<>> THEN <<>>
    ELSE (IF Head(flags) THEN <<Head(seq)>> ELSE <<>>)
             \o Keep(Tail(seq), Tail(flags))

\* C11: filter_leads is a stable partition of its input: the two outputs
\* together are as long as the input, suppressed is the input restricted to
\* the leads whose e-mail is_suppressed and allowed is the input restricted
\* to the others, both in input order; the call leaves the table (in memory
\* and persisted) unchanged.
C11_FilterLeadsStablePartition ==
    /\ [](s_last.op = "filter_leads" =>
            LET inp  == s_arg
                hit  == [i \in 1..Len(inp) |->
                            is_suppressed(cache, LeadEmail(inp[i]))]
                miss == [i \in 1..Len(inp) |-> ~hit[i]]
            IN  /\ s_out.exc = "none"
                /\ Len(s_out.value.allowed) + Len(s_out.value.suppressed)
                       = Len(inp)
                /\ s_out.value.suppressed = Keep(inp, hit)
                /\ s_out.value.allowed = Keep(inp, miss))
    /\ [][(s_last'.op = "filter_leads" /\ s_time' # s_time) =>
            (cache' = cache /\ file' = file)]_vars

\* filter_leads was given two leads that share a suppressed address, L2
\* before L1: both are in suppressed, in that order, and none is allowed
C11_Witness ==
    /\ s_last.op = "filter_leads"
    /\ Len(s_arg) = 2
    /\ s_arg[1].name = "L2" /\ s_arg[2].name = "L1"
    /\ s_out.value.allowed = <<>>
    /\ s_out.value.suppressed = s_arg
    /\ DOMAIN cache = {<<"a","@","b",".","c","o">>}

\* C12: after every add or remove that changes the table the persisted
\* table equals the table in memory, and a manager constructed on the file
\* answers is_suppressed as the running one does.
C12_PersistedEqualsMemory ==
    [][(s_last'.op \in {"add", "remove"} /\ s_time' # s_time
            /\ cache' # cache) =>
          /\ file' = cache'
          /\ \A e \in QuerySamples :
                is_suppressed(Loaded(file'), e) = is_suppressed(cache', e)]_vars

\* C13: bulk_add makes count grow by one for each distinct normalized e-mail
\* among the entries that had no entry before the call (entries without an
\* e-mail, entries already suppressed and repetitions count for nothing),
\* and the number it reports is that growth.
C13_BulkAddCountsNewEmails ==
    [][(s_last'.op = "bulk_add" /\ s_time' # s_time) =>
          LET entries == s_arg'
              given == {Normalized(entries[i].email) :
                           i \in {j \in 1..Len(entries) :
                                     entries[j].email # <<>>}}
              fresh == {x \in given :
                           ~\E k \in DOMAIN cache : Normalized(k) = x}
          IN  /\ Cardinality(DOMAIN cache')
                     = Cardinality(DOMAIN cache) + Cardinality(fresh)
              /\ s_out' = Cardinality(DOMAIN cache')
                              - Cardinality(DOMAIN cache)]_vars

\* bulk_add was given an address that is already suppressed (in another
\* spelling) and a new one: one addition is reported
C13_Witness ==
    /\ s_last.op = "bulk_add"
    /\ Len(s_arg) = 2
    /\ s_arg[1].email = <<" ","A","@","B",".","C","O">>
    /\ s_arg[2].email = <<"c","@","b",".","c","o">>
    /\ s_out = 1
    /\ Cardinality(DOMAIN cache) = 2
    /\ cache[<<"a","@","b",".","c","o">>].added_at
           < cache[<<"c","@","b",".","c","o">>].added_at

\* C14: is_suppressed returns (it does not raise) FALSE for "" and None
\* whatever the table holds; for another e-mail it returns TRUE exactly
\* when the table has an entry for the trimmed, lower-cased e-mail.
C14_IsSuppressedTotalAndNormalizing ==
    s_last.op = "is_suppressed" =>
        /\ s_out.exc = "none"
        /\ s_out.value \in BOOLEAN
        /\ IF s_last.email = <<>> \/ s_last.email = PyNone
           THEN s_out.value = FALSE
           ELSE s_out.value
                    = (\E k \in DOMAIN cache : k = Normalized(s_last.email))

\* is_suppressed was asked about an upper-case, padded spelling of an
\* address that has an entry and answered TRUE
C14_Witness ==
    /\ s_last.op = "is_suppressed"
    /\ s_last.email = <<"C","@","b",".","c","o"," ">>
    /\ s_out.value = TRUE
    /\ DOMAIN cache = {<<"c","@","b",".","c","o">>}

\* C15: after remove(x) is_suppressed is FALSE for every spelling of x, the
\* other entries are what they were and no entry appears; when x had no
\* entry neither the table in memory nor the persisted file changes.
C15_RemoveFrame ==
    [][(s_last'.op = "remove" /\ s_time' # s_time) =>
          LET x == Normalized(s_last'.email)
          IN  /\ \A v \in QuerySamples \ {PyNone} :
                    Normalized(v) = x => ~is_suppressed(cache', v)
              /\ DOMAIN cache' \subseteq DOMAIN cache
              /\ \A k \in DOMAIN cache \ {x} :
                    k \in DOMAIN cache' /\ cache'[k] = cache[k]
              /\ (x \notin DOMAIN cache =>
                    (cache' = cache /\ file' = file))]_vars

\* remove was called with another spelling of an address that had an entry:
\* the entry is gone from the table (the file, whose rewrite failed, still
\* shows it) and the other entry is kept
C15_Witness ==
    /\ s_last.op = "remove"
    /\ s_last.email = <<" ","A","@","B",".","C","O">>
    /\ DOMAIN cache = {<<"c","@","b",".","c","o">>}
    /\ DOMAIN file = {<<"a","@","b",".","c","o">>, <<"c","@","b",".","c","o">>}
    /\ cache[<<"c","@","b",".","c","o">>] = file[<<"c","@","b",".","c","o">>]

(***************************************************************************)
(* Enrichment engine: properties.                                          *)
(***************************************************************************)
\* the lead the records of qlog are about
CurrentLead == IF pb_pc \in {"next", "returned"} THEN pb_i - 1 ELSE pb_i

\* C2: when process_batch returns, every returned lead has email_verified =
\* true, and the returned list is the input list restricted to the leads with
\* email_verified = true, in input order and without repetition.
C2_BatchReturnsVerifiedInOrder ==
    pb_pc = "returned" =>
       /\ \A j \in 1..Len(enriched) :
             /\ enriched[j] \in 1..Len(leads)
             /\ leads[enriched[j]].email_verified = "True"
       /\ \A j \in 1..(Len(enriched) - 1) : enriched[j] < enriched[j + 1]
       /\ {enriched[j] : j \in 1..Len(enriched)}
             = {i \in 1..Len(leads) : leads[i].email_verified = "True"}

\* the first lead was dropped and the second one returned
C2_Witness ==
    /\ pb_pc = "returned"
    /\ Len(leads) = 2
    /\ leads[1].email_verified = "False"
    /\ enriched = <<2>>

\* C3 (as claimed): a failure while enriching or verifying one lead never
\* aborts process_batch; when process_batch stops, every lead of the batch
\* has been given a disposition.
C3_FailureDoesNotAbortBatch ==
    /\ pb_pc # "raised"
    /\ pb_pc = "returned" =>
          \A i \in 1..Len(leads) : leads[i].email_verified \in {"True", "False"}

\* C4: after enrich_and_verify a lead has email_verified = true exactly when
\* its final e-mail passes is_valid_email and the verification call made for
\* that e-mail answered "valid"; any other answer, or none, gives false.
C4_VerifiedMeansProviderSaidValid ==
    /\ \A i \in 1..Len(leads) :
          leads[i].email_verified = "True" => is_valid_email(leads[i].email)
    /\ (pb_pc \in {"next", "returned"} /\ pb_i > 1) =>
          LET l == leads[pb_i - 1]
          IN  /\ l.email_verified \in {"True", "False"}
              /\ l.email_verified = "True" <=>
                    /\ is_valid_email(l.email)
                    /\ qlog # <<>>
                    /\ qlog[Len(qlog)].op = "verify"
                    /\ qlog[Len(qlog)].arg = l.email
                    /\ qlog[Len(qlog)].resp = Returns("valid")

\* a lead whose e-mail came from the waterfall and was verified
C4_Witness ==
    /\ pb_pc = "next"
    /\ pb_i = 2
    /\ leads[1].enrichment_source = "hunter"
    /\ leads[1].email_verified = "True"
    /\ qlog[Len(qlog)].resp = Returns("valid")

\* C5: when the first provider call of the waterfall (Prospeo) fails, the
\* waterfall goes on: the next provider (Hunter) is queried, and if it returns
\* a valid e-mail the lead ends with that e-mail and enrichment_source =
\* "hunter".
C5_ProviderFailureFallsThrough ==
    (Len(qlog) >= 1 /\ qlog[1].op = "prospeo" /\ qlog[1].outcome.exc # "none")
       => /\ Len(qlog) = 1 => pb_pc = "hunter"
          /\ Len(qlog) >= 2 =>
                /\ qlog[2].op = "hunter"
                /\ (qlog[2].outcome.exc = "none"
                      /\ is_valid_email(qlog[2].outcome.value))
                      => /\ leads[CurrentLead].email = qlog[2].outcome.value
                         /\ leads[CurrentLead].enrichment_source = "hunter"

\* Prospeo still answered 503 on the last of its three requests, Hunter found
\* an address, and the lead carries it
C5_Witness ==
    /\ Len(qlog) = 2
    /\ qlog[1].op = "prospeo" /\ qlog[1].outcome = HTTPError(503)
    /\ qlog[2].outcome = Returns(<<"c","@","b",".","c","o">>)
    /\ leads[CurrentLead].enrichment_source = "hunter"
    /\ leads[CurrentLead].email = <<"c","@","b",".","c","o">>

(***************************************************************************)
(* Pipeline: properties.                                                   *)
(***************************************************************************)
\* C1 (as claimed): no request sent to the outreach platform contains a lead
\* whose normalized e-mail is in the suppression table.
C1_NoSuppressedLeadPushed ==
    \A r \in 1..Len(pushed) : \A j \in 1..Len(pushed[r]) :
        Normalized(pushed[r][j].email) \notin DOMAIN file

(***************************************************************************)
(* Reply router: properties.                                               *)
(***************************************************************************)
\* the six categories of the specification
SixCategories ==
    { <<"I","N","T","E","R","E","S","T","E","D">>,
      <<"N","O","T","_","I","N","T","E","R","E","S","T","E","D">>,
      <<"M","E","E","T","I","N","G","_","R","E","Q","U","E","S","T">>,
      <<"O","U","T","_","O","F","_","O","F","F","I","C","E">>,
      <<"U","N","S","U","B","S","C","R","I","B","E">>,
      <<"Q","U","E","S","T","I","O","N">> }

\* the token of the service, trimmed and upper-cased
Token(resp) == upper(strip(resp.value))

\* C16: whatever token the classification service sends back, classify
\* returns one of the six categories: the trimmed, upper-cased token when
\* that is one of the six, QUESTION otherwise.
C16_ClassifyReturnsOneOfSix ==
    (c_last.op = "classify" /\ c_last.llm.exc = "none") =>
        /\ c_out.exc = "none"
        /\ c_out.value \in SixCategories
        /\ c_out.value = IF Token(c_last.llm) \in SixCategories
                         THEN Token(c_last.llm)
                         ELSE <<"Q","U","E","S","T","I","O","N">>

\* the service answered "INTERESTED." and classify returned QUESTION
C16_Witness ==
    /\ c_last.op = "classify"
    /\ c_last.llm = Returns(<<"I","N","T","E","R","E","S","T","E","D",".">>)
    /\ c_out = Returns(<<"Q","U","E","S","T","I","O","N">>)

\* the routing table of the specification
ActionOf(category) ==
    CASE category = <<"I","N","T","E","R","E","S","T","E","D">>
            -> "slack_alert"
      [] category = <<"M","E","E","T","I","N","G","_","R","E","Q","U","E",
                      "S","T">>
            -> "slack_alert"
      [] category = <<"N","O","T","_","I","N","T","E","R","E","S","T","E","D">>
            -> "log_and_remove"
      [] category = <<"Q","U","E","S","T","I","O","N">>
            -> "draft_response"
      [] category = <<"O","U","T","_","O","F","_","O","F","F","I","C","E">>
            -> "reschedule"
      [] category = <<"U","N","S","U","B","S","C","R","I","B","E">>
            -> "suppress"

C18_SinkFailureNeverFailsRoute ==
    (c_last.op = "route"
        /\ c_last.category \in {<<"I","N","T","E","R","E","S","T","E","D">>,
                                <<"M","E","E","T","I","N","G","_","R","E","Q",
                                  "U","E","S","T">>}) =>
        /\ c_out.exc = "none"
        /\ c_out.value = [email |-> c_last.email,
                          category |-> c_last.category,
                          action |-> "slack_alert"]

\* route was called for INTERESTED with a webhook configured, the post to
\* the sink raised ConnectionError, and route returned
C18_Witness ==
    /\ c_last.op = "route"
    /\ c_last.category = <<"I","N","T","E","R","E","S","T","E","D">>
    /\ slack_webhook_url # ""
    /\ c_last.post = Raises("ConnectionError")
    /\ c_out.exc = "none"
    /\ c_out.value.action = "slack_alert"

(***************************************************************************)
(* Campaign monitor: properties.                                           *)
(***************************************************************************)
\* 1 when the condition holds, 0 otherwise
One(b) == IF b THEN 1 ELSE 0

\* the members of a sequence
Range(seq) == {seq[i] : i \in 1..Len(seq)}

\* C19: on a snapshot with total_sent > 0 check_and_alert gives a bounce
\* alert exactly when bounce_rate > max_bounce_rate, an unsubscribe alert
\* exactly when unsubscribe_rate > 2.0 and a low-reply warning exactly when
\* total_sent >= 500 and reply_rate < 3.0; the alerts are as many as the
\* conditions that hold, so a rate equal to its threshold gives none.
C19_ThreeIndependentChecks ==
    (m_last.op = "check_and_alert" /\ m_health.total_sent > 0) =>
        LET sent == m_health.total_sent
            bounce == m_health.total_bounced * 100 * max_bounce_rate.d
                          > max_bounce_rate.n * sent
            unsub == m_health.total_unsubscribed * 100 > 2 * sent
            low == sent >= 500 /\ m_health.total_replied * 100 < 3 * sent
        IN  /\ ("bounce" \in Range(m_out)) = bounce
            /\ ("unsubscribe" \in Range(m_out)) = unsub
            /\ ("low_reply" \in Range(m_out)) = low
            /\ Len(m_out) = One(bounce) + One(unsub) + One(low)

\* 500 sends, 11 bounces (2.2%), 11 unsubscribes (2.2%), 14 replies (2.8%):
\* three alerts
C19_Witness ==
    /\ m_last.op = "check_and_alert"
    /\ m_health.total_sent = 500
    /\ m_health.total_bounced = 11
    /\ m_health.total_unsubscribed = 11
    /\ m_health.total_replied = 14
    /\ Len(m_out) = 3

\* the rate r is count / sent * 100
IsPercentOf(r, count, sent) == r.n * sent = count * 100 * r.d

\* C20: with total_sent = 0 the four rates are 0.0 whatever the other
\* counters are, is_healthy is TRUE and check_and_alert returns no alert;
\* with total_sent > 0 each rate is count / total_sent * 100 and is_healthy
\* is FALSE exactly when bounce_rate or unsubscribe_rate is above the
\* maximum given for it.
C20_RatesAndHealth ==
    /\ (m_last.op # "init" /\ m_health.total_sent = 0) =>
          /\ \A k \in DOMAIN m_rates : m_rates[k].n = 0 /\ m_rates[k].d # 0
          /\ (m_last.op = "is_healthy") => (m_out = TRUE)
          /\ (m_last.op = "check_and_alert") => (m_out = <<>>)
    /\ (m_last.op # "init" /\ m_health.total_sent > 0) =>
          /\ IsPercentOf(m_rates.bounce, m_health.total_bounced,
                         m_health.total_sent)
          /\ IsPercentOf(m_rates.reply, m_health.total_replied,
                         m_health.total_sent)
          /\ IsPercentOf(m_rates.open, m_health.total_opened,
                         m_health.total_sent)
          /\ IsPercentOf(m_rates.unsubscribe, m_health.total_unsubscribed,
                         m_health.total_sent)
          /\ (m_last.op = "is_healthy") =>
                ((m_out = FALSE) =
                    (\/ m_health.total_bounced * 100 * m_last.max_bounce_pct.d
                            > m_last.max_bounce_pct.n * m_health.total_sent
                     \/ m_health.total_unsubscribed * 100
                                * m_last.max_unsub_pct.d
                            > m_last.max_unsub_pct.n * m_health.total_sent))

\* is_healthy() was called with its defaults on a snapshot with no sends
\* and eleven bounces, and answered TRUE
C20_Witness ==
    /\ m_last.op = "is_healthy"
    /\ m_last.max_bounce_pct = Pct(2, 1) /\ m_last.max_unsub_pct = Pct(2, 1)
    /\ m_health.total_sent = 0
    /\ m_health.total_bounced = 11
    /\ m_out = TRUE

(***************************************************************************)
(* enrich called on its own: properties.                                   *)
(***************************************************************************)
\* the address passes the e-mail validator as it stands
PassesValidator(email) == is_valid_email(email)

\* C21: a call of enrich on a lead whose e-mail passes is_valid_email makes
\* no provider query, returns, leaves the e-mail as it was and sets
\* enrichment_source to "scraped"; a second call on the dict the first one
\* returned leaves that dict exactly as it was.
C21_Layer1ShortCircuitIdempotent ==
    \A k \in 1..Len(d_log) :
       PassesValidator(d_hist[k].email) =>
          /\ d_log[k].queries = <<>>
          /\ d_log[k].exc = "none"
          /\ d_hist[k + 1].email = d_hist[k].email
          /\ d_hist[k + 1].enrichment_source = "scraped"
          /\ (k + 1 <= Len(d_log) => d_hist[k + 2] = d_hist[k + 1])

\* enrich was called twice on a lead scraped with the address " A@B.CO",
\* which the validator accepts, and no website
C21_Witness ==
    /\ Len(d_log) = 2
    /\ d_hist[1].email = <<" ","A","@","B",".","C","O">>
    /\ d_hist[1].enrichment_source = "unset"
    /\ d_hist[3] = [d_hist[1] EXCEPT !.enrichment_source = "scraped"]

\* C31: a call of enrich on a lead whose e-mail is not valid and whose
\* website is absent or empty makes no provider query, returns, and leaves
\* the dict as it was except for enrichment_source, which is "none"; the
\* e-mail field in particular is unchanged.
C31_NoWebsiteStopsWithNone ==
    \A k \in 1..Len(d_log) :
       (~PassesValidator(d_hist[k].email) /\ d_hist[k].website = <<>>) =>
          /\ d_log[k].queries = <<>>
          /\ d_log[k].exc = "none"
          /\ d_hist[k + 1].email = d_hist[k].email
          /\ d_hist[k + 1] =
                [d_hist[k] EXCEPT !.enrichment_source = "none"]

\* enrich was called on the lead with the e-mail "a@" and no website, and
\* left it with enrichment_source "none"
C31_Witness ==
    /\ Len(d_log) >= 1
    /\ d_hist[1].email = <<"a","@">>
    /\ d_hist[1].website = <<>>
    /\ d_hist[2].email = <<"a","@">>
    /\ d_hist[2].enrichment_source = "none"

\* the provider query q gave back the address email, and it is a valid one
Supplied(q, email) ==
    /\ q.outcome.exc = "none"
    /\ q.outcome.value = email
    /\ PassesValidator(email)

\* C29 (as claimed): after a call of enrich that returned, enrichment_source
\* names the layer that supplied the accepted e-mail: "scraped" only if the
\* e-mail the lead came with passed is_valid_email, "prospeo" / "hunter" only
\* if that provider returned the valid e-mail now stored, and "none" whenever
\* no layer yielded a valid e-mail.
C29_SourceNamesSupplyingLayer ==
    \A k \in 1..Len(d_log) :
       d_log[k].exc = "none" =>
          LET before == d_hist[k]
              after == d_hist[k + 1]
              source == after.enrichment_source
              queries == d_log[k].queries
          IN  /\ source = "scraped" => PassesValidator(before.email)
              /\ \A p \in {"prospeo", "hunter"} :
                    source = p =>
                       \E i \in 1..Len(queries) :
                          /\ queries[i].op = p
                          /\ Supplied(queries[i], after.email)
              /\ ~PassesValidator(after.email) => source = "none"

\* the positions of qlog at which the provider op was queried
QueriesOf(op) == {i \in 1..Len(qlog) : qlog[i].op = op}

\* C32: in enrich_and_verify, when the waterfall ends without a
\* syntactically valid e-mail, email_verified is set to false and the
\* verification provider is not called for that lead; whenever it is called,
\* it is for an e-mail that passes is_valid_email.
C32_NoVerificationWithoutValidEmail ==
    /\ \A v \in QueriesOf("verify") : PassesValidator(qlog[v].arg)
    /\ (/\ pb_pc \in {"next", "returned"}
        /\ pb_i > 1
        /\ ~PassesValidator(leads[pb_i - 1].email)) =>
          /\ leads[pb_i - 1].email_verified = "False"
          /\ QueriesOf("verify") = {}

\* both providers were asked for the lead with the e-mail "a@" and found
\* nothing; the lead was finished unverified and without a verification
C32_Witness ==
    /\ pb_pc = "next"
    /\ pb_i = 2
    /\ leads[1].email = <<"a","@">>
    /\ leads[1].email_verified = "False"
    /\ Len(qlog) = 2
    /\ qlog[1].op = "prospeo" /\ qlog[2].op = "hunter"

\* C30: for one lead, the providers are tried in order and the chain stops
\* at the first acceptable result: each of Prospeo and Hunter is queried at
\* most once (one query being one call of the decorated search, retries
\* included), and Hunter only after a Prospeo query that did not yield a
\* valid e-mail.
C30_ProvidersInOrderStopAtFirst ==
    /\ Cardinality(QueriesOf("prospeo")) <= 1
    /\ Cardinality(QueriesOf("hunter")) <= 1
    /\ \A h \in QueriesOf("hunter") :
          \E p \in QueriesOf("prospeo") :
             /\ p < h
             /\ ~(/\ qlog[p].outcome.exc = "none"
                  /\ PassesValidator(qlog[p].outcome.value))

\* Prospeo gave up on HTTP 503 after its retries, then Hunter was asked and
\* supplied the address that is now being verified
C30_Witness ==
    /\ pb_pc = "verify"
    /\ Len(qlog) = 2
    /\ qlog[1].op = "prospeo" /\ qlog[1].outcome = HTTPError(503)
    /\ qlog[2].op = "hunter"
    /\ qlog[2].outcome = Returns(leads[pb_i].email)
    /\ leads[pb_i].enrichment_source = "hunter"

(***************************************************************************)
(* Outreach client: properties.                                            *)
(***************************************************************************)
\* the leads of ls whose e-mail passes the validator, in order
ValidSubset(ls) == SelectSeq(ls, LAMBDA l : PassesValidator(l.email))

\* C22: no lead whose e-mail fails is_valid_email is part of a request sent
\* to the outreach platform: add_leads_batch posts exactly the valid-e-mail
\* subset of its list, in one request, and nothing when that subset is
\* empty; add_lead on an invalid e-mail raises ValueError before any
\* request, and is not retried.
C22_OnlyValidEmailsSent ==
    /\ \A i \in 1..Len(i_requests) :
          \A j \in 1..Len(i_requests[i]) :
             PassesValidator(i_requests[i][j].email)
    /\ i_last.op = "add_leads_batch" =>
          LET valid == ValidSubset(i_last.arg)
          IN  IF valid = <<>>
              THEN i_requests = <<>>
              ELSE i_requests =
                      <<[j \in 1..Len(valid) |-> [email |-> valid[j].email]]>>
    /\ (i_last.op = "add_lead" /\ ~PassesValidator(i_last.arg.email)) =>
          /\ i_requests = <<>>
          /\ i_out = Raises("ValueError")
          /\ i_last.attempts = 1

\* add_leads_batch was given an invalid lead followed by a valid one and
\* posted the valid one alone
C22_Witness ==
    /\ i_last.op = "add_leads_batch"
    /\ Len(i_last.arg) = 2
    /\ i_last.arg[1].email = <<"a","@">>
    /\ i_last.arg[2].email = <<"a","@","b",".","c","o">>
    /\ i_requests = <<<<[email |-> <<"a","@","b",".","c","o">>]>>>>

(***************************************************************************)
(* run_pipeline, Stage 4: properties.                                      *)
(***************************************************************************)
\* C25: in a run of run_pipeline with dry_run or skip_outreach set,
\* add_leads_batch is never invoked and nothing is posted to the platform,
\* and when the run completes the list it returns is still the list of the
\* verified leads, in input order.
C25_FlagsSkipPushStillReturn ==
    (dry_run \/ skip_outreach) =>
       /\ p_push = NotCalled
       /\ pushed = <<>>
       /\ p_pc = "done" =>
             /\ \A j \in 1..(Len(returned) - 1) : returned[j] < returned[j + 1]
             /\ {returned[j] : j \in 1..Len(returned)}
                   = {i \in 1..Len(leads) : leads[i].email_verified = "True"}

\* a run with skip_outreach alone set completed and returned a verified lead
C25_Witness ==
    /\ p_pc = "done"
    /\ skip_outreach /\ ~dry_run
    /\ returned # <<>>
    /\ leads[returned[1]].email_verified = "True"

\* C28 (as claimed): in Stage 4 a transient failure of the batch push
\* (connection error, timeout, HTTP 429 / 500 / 502 / 503 / 504) is retried,
\* and is logged as a failed push only after the retries: a push that ended
\* in a transient failure has posted its request more than once.
C28_TransientPushFailureRetried ==
    (p_pc = "done" /\ TransientFailure(p_push)) => Len(pushed) > 1

(***************************************************************************)
(* URL validation: properties.                                             *)
(***************************************************************************)
\* C23 (as claimed): is_valid_url returns false for every URL whose host is
\* a private, loopback or link-local IP address or a known internal host
\* name, for either allowed scheme and any path, and true for an ordinary
\* public host under an allowed scheme; sanitize_url returns the empty
\* string for every such internal target.
C23_InternalTargetsRejected ==
    /\ (u_last.op = "is_valid_url" /\ u_last.host.kind # "public") =>
          u_out = FALSE
    /\ (/\ u_last.op = "is_valid_url"
        /\ u_last.host.kind = "public"
        /\ u_last.scheme = <<"h","t","t","p","s">>) =>
          u_out = TRUE
    /\ (u_last.op = "sanitize_url" /\ u_last.host.kind # "public") =>
          u_out = <<>>

(***************************************************************************)
(* Cost tracker: properties.                                               *)
(***************************************************************************)
\* the cost of one logged operation, in 1/10000 USD; a service without a
\* known unit cost counts for 0
LoggedCost(e) ==
    e.count * (CASE e.service = "prospeo_search" -> 100
                 [] e.service = "claude_sonnet" -> 30
                 [] OTHER -> 0)

\* the sum of the logged counts
RECURSIVE SumCounts(_)
SumCounts(log) ==
    IF log = <<>> THEN 0 ELSE Head(log).count + SumCounts(Tail(log))

\* the sum of the costs of the logged operations
RECURSIVE SumCosts(_)
SumCosts(log) ==
    IF log = <<>> THEN 0 ELSE LoggedCost(Head(log)) + SumCosts(Tail(log))

\* C24 (as claimed): within a session the per-service call counts and the
\* accumulated spend never decrease across any sequence of log_call
\* operations; total_calls always equals the sum of all logged counts and
\* total_spend the sum of unit_cost(service) * count, a service of unknown
\* cost counting as calls at cost 0.
C24_CountsAndSpendMonotone ==
    /\ [](/\ total_calls = SumCounts(t_log)
          /\ total_spend = SumCosts(t_log))
    /\ [][\A s \in DOMAIN t_calls :
             /\ t_calls'[s] >= t_calls[s]
             /\ t_spend'[s] >= t_spend[s]]_vars

(***************************************************************************)
(* Reply classifier: the retry policy.                                     *)
(***************************************************************************)
\* C34 (as claimed): classify obeys the retry policy: when the
\* classification service fails transiently (no connection, timeout or
\* rate-limit response, as the client reports them) the request is
\* retried, and the failure reaches the caller only after 2 additional
\* requests.
C34_ClassifyRetriesTransient ==
    (/\ c_last.op = "classify"
     /\ c_last.llm.exc \in {"APIConnectionError", "APITimeoutError",
                            "RateLimitError"}
     /\ c_out.exc # "none") =>
        c_last.attempts = 2 + 1

(***************************************************************************)
(* Retry policy: the backoff delays.                                       *)
(***************************************************************************)
RECURSIVE SumSeq(_)
SumSeq(q) == IF q = <<>> THEN 0 ELSE Head(q) + SumSeq(Tail(q))

\* C33: in one invocation of retry_with_backoff the sleep before the n-th
\* retry (n = 1..max_retries) is exactly base_delay * 2^(n-1), with
\* base_delay = 2 s, whether the failure before it was an HTTP status or a
\* network failure; there are at most max_retries sleeps, so the sleeps of
\* the invocation add up to at most base_delay * (2^max_retries - 1).
C33_BackoffDelaysExact ==
    /\ Len(sleeps) <= max_retries
    /\ \A n \in 1..Len(sleeps) :
          /\ sleeps[n] = 2 * 2 ^ (n - 1)
          /\ TransientFailure(history[n])
    /\ SumSeq(sleeps) <= 2 * (2 ^ max_retries - 1)

\* three retries, after an HTTP 503, a network failure and an HTTP status
\* again: the sleeps were 2 s, 4 s and 8 s, the bound for max_retries = 3
C33_Witness ==
    /\ max_retries = 3
    /\ sleeps = <<2, 4, 8>>
    /\ history[1].exc = "HTTPError"
    /\ history[2].exc = "ConnectionError"
    /\ history[3].exc = "HTTPError"

(***************************************************************************)
(* Rate limit under two threads: properties.                               *)
(***************************************************************************)
\* C26 (as claimed): when two workers invoke the same rate-limited operation
\* concurrently and share its last-invocation timestamp, no two starts of
\* the wrapped function are less than min_interval apart, in any
\* interleaving.
C26_ConcurrentStartsSpaced ==
    \A i \in 1..Len(rl_log) : \A j \in (i + 1)..Len(rl_log) :
       rl_log[i].op = rl_log[j].op =>
          rl_log[j].start - rl_log[i].start >= min_interval[rl_log[i].op]

(***************************************************************************)
(* Two suppression managers on one file: properties.                       *)
(***************************************************************************)
\* C27 (as claimed): a suppression entry does not disappear without a
\* remove: when two SuppressionManager instances share one file and
\* interleave add operations, every e-mail added by either instance is in
\* the persisted table once the adds have completed.  Only behaviours in
\* which every write of the file succeeded are looked at.
C27_NoAddLostBetweenInstances ==
    (\A i \in 1..Len(sm_adds) : sm_adds[i].stored => sm_adds[i].saved) =>
       \A i \in 1..Len(sm_adds) : sm_adds[i].key \in DOMAIN file

(***************************************************************************)
(* Suppression table loaded from the persisted file: properties.           *)
(***************************************************************************)
\* C35 (as claimed): in every reachable state, right after _load included,
\* every key of the suppression table is a normalized e-mail (lower-cased
\* and trimmed), so that is_suppressed(e) is true for every address e whose
\* normalized form is that of a stored address.
C35_KeysNormalizedAfterLoad ==
    /\ \A k \in DOMAIN cache : k = Normalized(k)
    /\ \A e \in SuppEmailSamples :
          (\E k \in DOMAIN cache : Normalized(k) = Normalized(e)) =>
             is_suppressed(cache, e)

(***************************************************************************)
(* Campaign alerts sent to the sink: properties.                           *)
(***************************************************************************)
\* C36: send_slack_alerts posts to the sink only when the alert list is
\* non-empty and a sink URL is configured, and then once, to that URL, with
\* one line per alert; with no alerts or no URL it posts nothing; and it
\* never raises, whether the sink answered, failed or was not configured.
C36_SinkContactedOnlyWithAlertsAndUrl ==
    /\ [](k_out = None)
    /\ [][k_calls' # k_calls =>
            IF k_last'.alerts # <<>> /\ slack_webhook_url # ""
            THEN /\ Len(k_posts') = Len(k_posts) + 1
                 /\ k_posts'[Len(k_posts')].url = slack_webhook_url
                 /\ Len(k_posts'[Len(k_posts')].text) = Len(k_last'.alerts)
                 /\ k_last'.post # NotCalled
            ELSE /\ k_posts' = k_posts
                 /\ k_last'.post = NotCalled]_vars

C36_Witness ==
    /\ k_calls = 2
    /\ k_last.alerts = <<"bounce", "unsubscribe">>
    /\ k_last.post = Raises("ConnectionError")
    /\ Len(k_posts) = 1
    /\ k_out = None

(***************************************************************************)
(* The persisted cost log: properties.                                     *)
(***************************************************************************)
\* C37 (as claimed): whatever the log file holds before, a save whose write
\* goes through leaves a list that is the summaries the file held, each
\* unchanged and in place, followed by exactly one new summary: that of
\* the session.
C37_SaveAppendsOneKeepsRest ==
    [][(t_saved'.n # t_saved.n /\ t_saved'.write_ok) =>
          /\ t_saved'.exc = "none"
          /\ t_file'.kind = "list"
          /\ t_file'.entries = Append(t_file.entries, t_saved'.entry)]_vars

(***************************************************************************)
(* Campaign monitor: spam complaints and failed fetches.                   *)
(***************************************************************************)
\* C38 (as claimed): when the summary of a campaign with sends reports a
\* spam-complaint rate above max_spam_rate (0.1%), check_and_alert returns
\* an alert for it, next to the alerts of the bounce, unsubscribe and reply
\* checks.
C38_SpamRateAlert ==
    (/\ m_last.op = "check_and_alert"
     /\ m_last.fetch.exc = "none"
     /\ m_health.total_sent > 0
     /\ Gt(Rate(Get(m_last.fetch.value, "spam_complaints", 0),
                m_health.total_sent), max_spam_rate)) =>
        \E i \in 1..Len(m_out) :
            m_out[i] \notin {"bounce", "unsubscribe", "low_reply"}

\* C39: when the fetch of the analytics fails with an exception of requests
\* (a retryable one after all 3 attempts, another one at once), get_health
\* returns the all-zero snapshot and check_and_alert returns, with the
\* empty list: the same answer as for a campaign whose summary reports no
\* sends.
C39_FetchFailureGivesNoAlert ==
    (m_last.op # "init" /\ m_last.fetch.exc \in RequestExceptions) =>
        /\ m_last.op = "check_and_alert"
        /\ m_health = CampaignHealth(0, 0, 0, 0, 0)
        /\ m_out = <<>>
        /\ m_out = check_and_alert(get_health(<<Returns([sent |-> 0])>>).value,
                                   max_bounce_rate)

C39_Witness ==
    /\ m_last.op = "check_and_alert"
    /\ m_last.fetch = Raises("ConnectionError")
    /\ m_last.attempts = 3
    /\ m_health.total_sent = 0
    /\ m_out = <<>>
====
